---- MODULE Spec2Model ----
(***************************************************************************)
(* A model of the lazy query engine of the rune compiler                   *)
(* (crates/rune/src/query/mod.rs): the meta cache, the ordered indexer,    *)
(* the build queue, the name table, and the operations that move entries   *)
(* between them; and of the emitter of field accesses                      *)
(* (crates/rune/src/compiling/assemble/expr_field_access.rs).              *)
(*                                                                         *)
(* An Item is a sequence of components; the pool interns items, so an      *)
(* ItemId is modelled by the item it stands for.  A ModId is the position  *)
(* of a module record in the pool.  An Option is a sequence of length 0 or *)
(* 1.  Every method of Query is an operator from the engine state q (a     *)
(* record of the fields) and its arguments to [q |-> state after,          *)
(* res |-> returned value]; the actions below apply them to the variables. *)
(***************************************************************************)
EXTENDS Integers, Sequences, FiniteSets, TLC

VARIABLES
    meta,       \* QueryInner::meta: ItemId -> PrivMeta
    queue,      \* QueryInner::queue: VecDeque<BuildEntry>
    indexed,    \* QueryInner::indexed: LinkedHashMap<ItemId, Vec<IndexedEntry>>
    names,      \* QueryInner::names
    modules,    \* Pool: the module records, ModId = position
    unit,       \* UnitBuilder: the items whose type meta was installed
    registered, \* CompileVisitor: number of register_meta calls
    decls,      \* number of items given so far; a declaration's location
    debug_assertions, \* build profile: whether debug_assert! is compiled in
    pushed,     \* history: every build entry ever pushed, in push order
    popped,     \* history: every value next_build_entry returned Some of
    call,       \* the locals of the call of import that is running, if any
    compiler,   \* Compiler: the assembly, the warnings, the scopes, the strings
    query_paths, \* QueryInner::query_paths: NonZeroId -> QueryPath
    gen,        \* Gen: the last id handed out
    last        \* the last operation: its name, arguments and result

vars == <<meta, queue, indexed, names, modules, unit, registered, decls,
          debug_assertions, pushed, popped, call, compiler, query_paths, gen,
          last>>

----------------------------------------------------------------------------
(* Bounds of the model. *)

\* Number of items the engine is given: the declarations of the program
\* that are indexed and the host items installed by insert_context_meta.
MaxEntries == 2

\* Longest list of entries indexed under one item in the remove_indexed study.
MaxLen == 3

----------------------------------------------------------------------------
(* Program constants. *)

IMPORT_RECURSION_LIMIT == 128

----------------------------------------------------------------------------
(* Values. *)

None == <<>>
Some(v) == <<v>>
IsSome(o) == Len(o) = 1
IsNone(o) == Len(o) = 0
Unwrap(o) == o[1]

Ok(v) == [tag |-> "Ok", val |-> v]
Err(kind, data) == [tag |-> "Err", kind |-> kind, data |-> data]
IsOk(r) == r.tag = "Ok"
IsErr(r) == r.tag = "Err"
IsErrKind(r, kind) == r.tag = "Err" /\ r.kind = kind

\* The root item, ItemId::default().
RootItem == <<>>

\* The root module's id.
RootMod == 1

Used == {"Used", "Unused"}

Visibility == {"Public", "Crate", "Super", "SelfValue", "Inherited"}

\* Indexed: the variants of the enum.
IndexedKinds ==
    {"Enum", "Struct", "Variant", "Function", "InstanceFunction", "Closure",
     "AsyncBlock", "Const", "ConstFn", "Import", "Module"}

ItemMeta(location, item, module, visibility) ==
    [location |-> location, item |-> item, module |-> module,
     visibility |-> visibility]

ImportEntry(location, target, module) ==
    [location |-> location, target |-> target, module |-> module]

\* The intermediate representation of a constant, as far as the engine sees
\* it: the items it refers to, in evaluation order, and whether its own
\* evaluation succeeds (FALSE: it fails, for instance by exhausting the
\* budget).
Ir(refs, ok) == [refs |-> refs, ok |-> ok, steps |-> 0]

\* The same for an expression whose own evaluation takes a number of
\* reductions.
IrOf(refs, steps) == [refs |-> refs, ok |-> TRUE, steps |-> steps]

NoIr == Ir(<<>>, TRUE)

\* Indexed::Import(Import { entry, wildcard }).
IndexedImport(entry, wildcard) ==
    [kind |-> "Import", import |-> Some(entry), wildcard |-> wildcard,
     ir |-> NoIr]

\* Indexed::Const(Const { module, ir }); ir is what evaluating it gives.
IndexedConst(ir) ==
    [kind |-> "Const", import |-> None, wildcard |-> FALSE, ir |-> ir]

\* Every other variant of Indexed.
IndexedOther(kind) ==
    [kind |-> kind, import |-> None, wildcard |-> FALSE, ir |-> NoIr]

IndexedEntry(item_meta, indexedv) ==
    [item_meta |-> item_meta, indexed |-> indexedv]

BuildEntry(item_meta, used, build) ==
    [item_meta |-> item_meta, used |-> used, build |-> build]

PrivMeta(item_meta, kind, import, source) ==
    [item_meta |-> item_meta, kind |-> kind, import |-> import,
     source |-> source]

ModMeta(location, item, visibility, parent) ==
    [location |-> location, item |-> item, visibility |-> visibility,
     parent |-> parent]

\* IndexedEntry::item: the item that best describes the entry.
EntryItem(e) ==
    IF e.indexed.kind = "Import" THEN Unwrap(e.indexed.import).target
    ELSE e.item_meta.item

IsWildcard(e) == e.indexed.kind = "Import" /\ e.indexed.wildcard

----------------------------------------------------------------------------
(* The ordered multimap of the indexer: a sequence of [key, entries] in    *)
(* the order in which the keys were first inserted.                        *)

IndexedKeys(ix) == {ix[i].key : i \in 1..Len(ix)}

IndexedHas(ix, item) == item \in IndexedKeys(ix)

IndexedGet(ix, item) ==
    IF IndexedHas(ix, item)
    THEN ix[CHOOSE i \in 1..Len(ix) : ix[i].key = item].entries
    ELSE <<>>

\* LinkedHashMap::remove.
IndexedRemove(ix, item) == SelectSeq(ix, LAMBDA p : p.key # item)

\* indexed.entry(item).or_default().push(entry)
IndexedPush(ix, item, entry) ==
    IF IndexedHas(ix, item)
    THEN [i \in 1..Len(ix) |->
            IF ix[i].key = item
            THEN [key |-> item, entries |-> Append(ix[i].entries, entry)]
            ELSE ix[i]]
    ELSE Append(ix, [key |-> item, entries |-> <<entry>>])

RECURSIVE FlattenEntries(_)
\* indexed.values().flat_map(|entries| entries.iter())
FlattenEntries(ix) ==
    IF ix = <<>> THEN <<>>
    ELSE Head(ix).entries \o FlattenEntries(Tail(ix))

----------------------------------------------------------------------------
(* Query::remove_indexed. *)

LocationOf(e) == <<e.item_meta.location, EntryItem(e)>>

LocationsOf(es) == [i \in 1..Len(es) |-> LocationOf(es[i])]

AmbiguousItem(cur, locations) ==
    Err("AmbiguousItem", [item |-> cur.item_meta.item, locations |-> locations])

\* DrainRest with a slip: the entries after the conflicting one are not
\* reported.
DrainRestNothing(locations, es, i) == locations

\* The rest of the iterator is drained into the locations before the error.
DrainRest(locations, es, i) ==
    locations \o LocationsOf(SubSeq(es, i, Len(es)))

RECURSIVE ScanEntriesKeepFirst(_, _, _, _)
\* ScanEntries with a slip: a current wildcard is not replaced by the next
\* import.
ScanEntriesKeepFirst(cur, es, i, locations) ==
    IF i > Len(es)
    THEN IF IsWildcard(cur) THEN AmbiguousItem(cur, locations) ELSE Ok(Some(cur))
    ELSE LET oth == es[i]
             locs == Append(locations, LocationOf(oth))
             both == cur.indexed.kind = "Import" /\ oth.indexed.kind = "Import"
         IN  IF both /\ (cur.indexed.wildcard \/ oth.indexed.wildcard)
             THEN ScanEntriesKeepFirst(cur, es, i + 1, locs)
             ELSE AmbiguousItem(cur, DrainRest(locs, es, i + 1))

RECURSIVE ScanEntriesAnyKind(_, _, _, _)
\* ScanEntries with a slip: the wildcard rule is applied whatever the kind
\* of the other entry.
ScanEntriesAnyKind(cur, es, i, locations) ==
    IF i > Len(es)
    THEN IF IsWildcard(cur) THEN AmbiguousItem(cur, locations) ELSE Ok(Some(cur))
    ELSE LET oth == es[i]
             locs == Append(locations, LocationOf(oth))
         IN  IF IsWildcard(cur)
             THEN ScanEntriesAnyKind(oth, es, i + 1, locs)
             ELSE IF IsWildcard(oth)
             THEN ScanEntriesAnyKind(cur, es, i + 1, locs)
             ELSE AmbiguousItem(cur, DrainRest(locs, es, i + 1))

RECURSIVE ScanEntriesNoFinalCheck(_, _, _, _)
\* ScanEntries with a slip: the check after the loop is missing.
ScanEntriesNoFinalCheck(cur, es, i, locations) ==
    IF i > Len(es)
    THEN Ok(Some(cur))
    ELSE LET oth == es[i]
             locs == Append(locations, LocationOf(oth))
             both == cur.indexed.kind = "Import" /\ oth.indexed.kind = "Import"
         IN  IF both /\ cur.indexed.wildcard
             THEN ScanEntriesNoFinalCheck(oth, es, i + 1, locs)
             ELSE IF both /\ oth.indexed.wildcard
             THEN ScanEntriesNoFinalCheck(cur, es, i + 1, locs)
             ELSE AmbiguousItem(cur, DrainRest(locs, es, i + 1))

RECURSIVE ScanEntries(_, _, _, _)
\* The `while let Some(oth) = it.next()` loop and what follows it: es are
\* all the entries, i the position of the next one, cur the current choice.
ScanEntries(cur, es, i, locations) ==
    IF i > Len(es)
    THEN IF IsWildcard(cur)
         THEN AmbiguousItem(cur, locations)
         ELSE Ok(Some(cur))
    ELSE LET oth == es[i]
             locs == Append(locations, LocationOf(oth))
             both == cur.indexed.kind = "Import" /\ oth.indexed.kind = "Import"
         IN  IF both /\ cur.indexed.wildcard
             THEN ScanEntries(oth, es, i + 1, locs)
             ELSE IF both /\ oth.indexed.wildcard
             THEN ScanEntries(cur, es, i + 1, locs)
             ELSE AmbiguousItem(cur, DrainRest(locs, es, i + 1))

\* remove_indexed with a slip: the entries stay in the indexer when the
\* lookup is ambiguous.
remove_indexed_keep(q, item) ==
    IF ~IndexedHas(q.indexed, item)
    THEN [q |-> q, res |-> Ok(None)]
    ELSE LET es == IndexedGet(q.indexed, item)
             q1 == [q EXCEPT !.indexed = IndexedRemove(q.indexed, item)]
             r == ScanEntries(es[1], es, 2, <<LocationOf(es[1])>>)
         IN  IF Len(es) = 1 THEN [q |-> q1, res |-> Ok(Some(es[1]))]
             ELSE IF IsOk(r) THEN [q |-> q1, res |-> r]
             ELSE [q |-> q, res |-> r]

\* remove_indexed(span, item): the entries of the item leave the indexer
\* whatever the outcome.
remove_indexed(q, item) ==
    IF ~IndexedHas(q.indexed, item)
    THEN [q |-> q, res |-> Ok(None)]
    ELSE LET es == IndexedGet(q.indexed, item)
             q1 == [q EXCEPT !.indexed = IndexedRemove(q.indexed, item)]
         IN  IF Len(es) = 0 THEN [q |-> q1, res |-> Ok(None)]
             ELSE IF Len(es) = 1 THEN [q |-> q1, res |-> Ok(Some(es[1]))]
             ELSE [q |-> q1,
                   res |-> ScanEntries(es[1], es, 2, <<LocationOf(es[1])>>)]

----------------------------------------------------------------------------
(* Items, modules and visibility (compile::Item, compile::Pool,            *)
(* compile::Visibility).                                                   *)

\* Item::parent: the item without its last component, if it has one.
Parent(item) ==
    IF Len(item) = 0 THEN None ELSE Some(SubSeq(item, 1, Len(item) - 1))

IsPrefix(a, b) == Len(a) <= Len(b) /\ SubSeq(b, 1, Len(a)) = a

\* Item::is_super_of: self is other, or other with at most n components
\* removed from its end.
is_super_of(self, other, n) ==
    \E k \in 0..n : k <= Len(other) /\ self = SubSeq(other, 1, Len(other) - k)

\* Length of the longest common prefix of two items.
CommonLen(a, b) ==
    LET ks == {k \in 0..Len(a) : k <= Len(b) /\ SubSeq(a, 1, k) = SubSeq(b, 1, k)}
    IN  CHOOSE k \in ks : \A j \in ks : j <= k

\* Item::ancestry: the common prefix of self and other, and what is left of
\* other below it.
ancestry(self, other) ==
    LET k == CommonLen(self, other)
    IN  [common |-> SubSeq(other, 1, k), tree |-> SubSeq(other, k + 1, Len(other))]

\* Visibility::is_visible(from, to).
is_visible(visibility, from, to) ==
    CASE visibility \in {"Inherited", "SelfValue"} -> is_super_of(from, to, 1)
      [] visibility = "Super" -> is_super_of(from, to, 2)
      [] OTHER -> TRUE

\* Visibility::is_visible_inside(from, to).
is_visible_inside(visibility, from, to) ==
    CASE visibility \in {"Inherited", "SelfValue"} -> from = to
      [] visibility = "Super" -> is_super_of(from, to, 1)
      [] OTHER -> TRUE

\* Pool::module_item.
module_item(q, id) == q.modules[id].item

\* Pool::module_by_item.
module_by_item(q, item) ==
    LET ids == {i \in 1..Len(q.modules) : q.modules[i].item = item}
    IN  IF ids = {} THEN None ELSE Some(q.modules[CHOOSE i \in ids : TRUE])

\* Pool::alloc_module: a module is interned by its item.
alloc_module(q, m) ==
    IF IsSome(module_by_item(q, m.item)) THEN q
    ELSE [q EXCEPT !.modules = Append(q.modules, m)]

RECURSIVE ModIsPublic(_, _)
\* ModMeta::is_public: the module and all its ancestors are public.
ModIsPublic(q, id) ==
    /\ q.modules[id].visibility = "Public"
    /\ IsNone(q.modules[id].parent) \/ ModIsPublic(q, Unwrap(q.modules[id].parent))

\* ItemMeta::is_public.
ItemIsPublic(q, item_meta) ==
    item_meta.visibility = "Public" /\ ModIsPublic(q, item_meta.module)

RECURSIVE CheckTree(_, _, _, _, _)
\* The loop of check_access_to over the modules from the common ancestor
\* down to the target module.
CheckTree(q, common, tree, k, from) ==
    IF k > Len(tree) THEN Ok(TRUE)
    ELSE LET current_module == common \o SubSeq(tree, 1, k)
             m == module_by_item(q, current_module)
         IN  IF IsNone(m)
             THEN Err("MissingMod", [item |-> current_module])
             ELSE IF ~is_visible(Unwrap(m).visibility, common, current_module)
             THEN Err("NotVisibleMod",
                      [item |-> current_module, from |-> module_item(q, from),
                       location |-> Unwrap(m).location])
             ELSE CheckTree(q, common, tree, k + 1, from)

\* check_access_to with a slip: the item's own visibility is tested before
\* the modules on the way to it.
check_access_to_item_first(q, from, item, module, location, visibility, chain) ==
    LET a == ancestry(module_item(q, from), module_item(q, module))
        t == CheckTree(q, a.common, a.tree, 1, from)
    IN  IF ~is_visible_inside(visibility, a.common, module_item(q, module))
        THEN Err("NotVisible",
                 [item |-> item, from |-> module_item(q, from),
                  location |-> location, chain |-> chain])
        ELSE t

\* check_access_to with a slip: the negation of the test of the item's own
\* visibility is missing.
check_access_to_negated(q, from, item, module, location, visibility, chain) ==
    LET a == ancestry(module_item(q, from), module_item(q, module))
        t == CheckTree(q, a.common, a.tree, 1, from)
    IN  IF ~IsOk(t) THEN t
        ELSE IF is_visible_inside(visibility, a.common, module_item(q, module))
        THEN Err("NotVisible",
                 [item |-> item, from |-> module_item(q, from),
                  location |-> location, chain |-> chain])
        ELSE Ok(TRUE)

\* Query::check_access_to.
check_access_to(q, from, item, module, location, visibility, chain) ==
    LET a == ancestry(module_item(q, from), module_item(q, module))
        t == CheckTree(q, a.common, a.tree, 1, from)
    IN  IF ~IsOk(t) THEN t
        ELSE IF ~is_visible_inside(visibility, a.common, module_item(q, module))
        THEN Err("NotVisible",
                 [item |-> item, from |-> module_item(q, from),
                  location |-> location, chain |-> chain])
        ELSE Ok(TRUE)

----------------------------------------------------------------------------
(* The meta cache, the name table and the build queue. *)

\* Names::insert / Query::insert_name.
insert_name(q, item) == [q EXCEPT !.names = q.names \cup {item}]

\* Names::contains.
names_contains(q, item) == item \in q.names

\* queue.push_back(entry)
push_back(q, entry) ==
    [q EXCEPT !.queue = Append(q.queue, entry),
              !.pushed = Append(q.pushed, entry)]

\* HashMap insert: the map with item bound to v.
MetaInsert(m, item, v) == (item :> v) @@ m

\* insert_meta with a slip: an occupied slot is overwritten.
insert_meta_overwrite(q, pm) ==
    [q |-> [q EXCEPT !.registered = q.registered + 1,
                     !.meta = MetaInsert(q.meta, pm.item_meta.item, pm)],
     res |-> Ok(TRUE)]

\* insert_meta with a slip: the visitor is told after the cache was written,
\* so not about a meta that is refused.
insert_meta_late(q, pm) ==
    LET item == pm.item_meta.item
    IN  IF item \in DOMAIN q.meta
        THEN [q |-> q,
              res |-> Err("MetaConflict",
                          [current |-> pm, existing |-> q.meta[item]])]
        ELSE [q |-> [q EXCEPT !.registered = q.registered + 1,
                              !.meta = MetaInsert(q.meta, item, pm)],
              res |-> Ok(TRUE)]

\* Query::insert_meta: the visitor is told first, then the cache is written
\* if and only if it holds nothing for the item.
insert_meta(q, pm) ==
    LET q1 == [q EXCEPT !.registered = q.registered + 1]
        item == pm.item_meta.item
    IN  IF item \in DOMAIN q1.meta
        THEN [q |-> q1,
              res |-> Err("MetaConflict",
                          [current |-> pm, existing |-> q1.meta[item]])]
        ELSE [q |-> [q1 EXCEPT !.meta = MetaInsert(q1.meta, item, pm)],
              res |-> Ok(TRUE)]

\* UnitBuilder::insert_meta: type meta of structs and variants is installed
\* once per item; a second installation is a conflict.
unit_insert_meta(q, pm) ==
    IF pm.kind \in {"Struct", "Variant"}
    THEN IF pm.item_meta.item \in q.unit
         THEN [q |-> q, res |-> Err("UnitConflict", [item |-> pm.item_meta.item])]
         ELSE [q |-> [q EXCEPT !.unit = q.unit \cup {pm.item_meta.item}],
               res |-> Ok(TRUE)]
    ELSE [q |-> q, res |-> Ok(TRUE)]

\* index with a slip: the name is not recorded.
index_without_name(q, entry) ==
    [q EXCEPT !.indexed = IndexedPush(q.indexed, entry.item_meta.item, entry)]

\* Query::index.
index(q, entry) ==
    LET q1 == insert_name(q, entry.item_meta.item)
    IN  [q1 EXCEPT !.indexed = IndexedPush(q1.indexed, entry.item_meta.item, entry)]

\* Query::index_and_build.
index_and_build(q, entry) ==
    index(push_back(q, BuildEntry(entry.item_meta, "Used", "Query")), entry)

\* next_build_entry with a slip: the queue is popped at the back.
next_build_entry_back(q) ==
    IF Len(q.queue) = 0 THEN [q |-> q, res |-> None]
    ELSE [q |-> [q EXCEPT !.queue = SubSeq(q.queue, 1, Len(q.queue) - 1)],
          res |-> Some(q.queue[Len(q.queue)])]

\* Query::next_build_entry.
next_build_entry(q) ==
    IF Len(q.queue) = 0 THEN [q |-> q, res |-> None]
    ELSE [q |-> [q EXCEPT !.queue = Tail(q.queue)], res |-> Some(Head(q.queue))]

----------------------------------------------------------------------------
(* Building entries and querying meta. *)

\* The Build variant pushed for an entry of each kind that is queued as it
\* is built with the caller's used flag.
BuildOf(kind) ==
    CASE kind = "Function" -> "Function"
      [] kind = "InstanceFunction" -> "InstanceFunction"
      [] kind = "Closure" -> "Closure"
      [] kind = "AsyncBlock" -> "AsyncBlock"
      [] OTHER -> "Import"

\* The PrivMetaKind built from an entry of each kind.
MetaKindOf(kind) ==
    IF kind \in {"Function", "InstanceFunction"} THEN "Function" ELSE kind

RECURSIVE query_meta(_, _, _)
RECURSIVE query_indexed_meta(_, _, _)
RECURSIVE build_indexed_entry(_, _, _)
RECURSIVE EvalRefs(_, _, _, _)
RECURSIVE eval_const(_, _, _, _)

\* IrInterpreter::eval_const, the part that re-enters the engine: every
\* item the expression refers to is queried, in order; an error ends the
\* evaluation.
EvalRefs(q, refs, k, used) ==
    IF k > Len(refs) THEN [q |-> q, res |-> Ok(TRUE)]
    ELSE LET r == query_meta(q, refs[k], used)
         IN  IF ~IsOk(r.res) THEN r
             ELSE EvalRefs(r.q, refs, k + 1, used)

\* IrBudget::new(1_000_000).
IR_BUDGET == 1000000

\* const_compiler with a slip: the budget is one step short.
const_compiler_short(entry) == [budget |-> IR_BUDGET - 1]

\* `let mut const_compiler = IrInterpreter { budget: IrBudget::new(..), .. }`:
\* the interpreter build_indexed_entry makes for a constant.
const_compiler(entry) == [budget |-> IR_BUDGET]

\* IrInterpreter::eval_const: the references re-enter the engine; the
\* expression's own reductions are taken from the interpreter's budget.
eval_const(q, interpreter, ir, used) ==
    LET r == EvalRefs(q, ir.refs, 1, used)
    IN  IF ~IsOk(r.res) THEN r
        ELSE IF ~ir.ok \/ ir.steps > interpreter.budget
        THEN [q |-> r.q, res |-> Err("IrError", [budget |-> TRUE])]
        ELSE [q |-> r.q, res |-> Ok("const_value")]

\* build_indexed_entry with a slip: a wildcard import is queued like any
\* other import.
build_indexed_entry_wildcard(q, entry, used) ==
    LET item_meta == entry.item_meta
        kind == entry.indexed.kind
        built(q1) ==
            [q |-> q1,
             res |-> Ok(PrivMeta(item_meta, MetaKindOf(kind),
                                 entry.indexed.import, TRUE))]
    IN  CASE kind \in {"Enum", "Struct", "Module"} -> built(q)
          [] kind = "Variant" ->
                LET e == query_meta(q, Unwrap(Parent(item_meta.item)), "Used")
                IN  IF ~IsOk(e.res) THEN e ELSE built(e.q)
          [] kind \in {"Function", "InstanceFunction", "Closure", "AsyncBlock"} ->
                built(push_back(q, BuildEntry(item_meta, used, BuildOf(kind))))
          [] kind = "Const" ->
                LET c == eval_const(q, const_compiler(entry), entry.indexed.ir, used)
                IN  IF ~IsOk(c.res) THEN c
                    ELSE IF used = "Unused"
                    THEN built(push_back(c.q, BuildEntry(item_meta, used, "Unused")))
                    ELSE built(c.q)
          [] kind = "ConstFn" ->
                IF used = "Unused"
                THEN built(push_back(q, BuildEntry(item_meta, used, "Unused")))
                ELSE built(q)
          [] kind = "Import" ->
                built(push_back(q, BuildEntry(item_meta, used, "Import")))

\* Query::build_indexed_entry.
build_indexed_entry(q, entry, used) ==
    LET item_meta == entry.item_meta
        kind == entry.indexed.kind
        built(q1) ==
            [q |-> q1,
             res |-> Ok(PrivMeta(item_meta, MetaKindOf(kind),
                                 entry.indexed.import, TRUE))]
    IN  CASE kind \in {"Enum", "Struct", "Module"} -> built(q)
          [] kind = "Variant" ->
                \* the enum is the parent item of the variant
                LET e == query_meta(q, Unwrap(Parent(item_meta.item)), "Used")
                IN  IF ~IsOk(e.res) THEN e ELSE built(e.q)
          [] kind \in {"Function", "InstanceFunction", "Closure", "AsyncBlock"} ->
                built(push_back(q, BuildEntry(item_meta, used, BuildOf(kind))))
          [] kind = "Const" ->
                LET c == eval_const(q, const_compiler(entry), entry.indexed.ir, used)
                IN  IF ~IsOk(c.res) THEN c
                    ELSE IF used = "Unused"
                    THEN built(push_back(c.q, BuildEntry(item_meta, used, "Unused")))
                    ELSE built(c.q)
          [] kind = "ConstFn" ->
                IF used = "Unused"
                THEN built(push_back(q, BuildEntry(item_meta, used, "Unused")))
                ELSE built(q)
          [] kind = "Import" ->
                IF ~entry.indexed.wildcard
                THEN built(push_back(q, BuildEntry(item_meta, used, "Import")))
                ELSE built(q)

\* `self.unit.insert_meta(span, &meta, self.pool)?; self.insert_meta(span,
\* meta)?`: the built meta is installed in the unit, then in the cache.
InsertBuilt(q, pm) ==
    LET u == unit_insert_meta(q, pm)
        m == insert_meta(u.q, pm)
    IN  IF ~IsOk(u.res) THEN u
        ELSE IF ~IsOk(m.res) THEN m
        ELSE [q |-> m.q, res |-> Ok(Some(pm))]

\* query_indexed_meta with a slip: a failure empties the build queue.
query_indexed_meta_abort(q, item, used) ==
    LET r == remove_indexed(q, item)
        b == build_indexed_entry(r.q, Unwrap(r.res.val), used)
    IN  IF ~IsOk(r.res) THEN [q |-> [r.q EXCEPT !.queue = <<>>], res |-> r.res]
        ELSE IF IsNone(r.res.val) THEN [q |-> r.q, res |-> Ok(None)]
        ELSE IF ~IsOk(b.res) THEN [q |-> [b.q EXCEPT !.queue = <<>>], res |-> b.res]
        ELSE InsertBuilt(b.q, b.res.val)

\* query_indexed_meta with a slip: while the entry is built the indexer
\* still holds it (here without the references of its expression, so that
\* the build inside the build ends).
query_indexed_meta_indexed(q, item, used) ==
    LET r == remove_indexed(q, item)
        entry == Unwrap(r.res.val)
        held == [entry EXCEPT !.indexed.ir = NoIr]
        b == build_indexed_entry(index(r.q, held), entry, used)
    IN  IF ~IsOk(r.res) THEN r
        ELSE IF IsNone(r.res.val) THEN [q |-> r.q, res |-> Ok(None)]
        ELSE IF ~IsOk(b.res) THEN b
        ELSE InsertBuilt([b.q EXCEPT !.indexed = IndexedRemove(b.q.indexed, item)],
                         b.res.val)

\* Query::query_indexed_meta.
query_indexed_meta(q, item, used) ==
    LET r == remove_indexed(q, item)
        b == build_indexed_entry(r.q, Unwrap(r.res.val), used)
    IN  IF ~IsOk(r.res) THEN r
        ELSE IF IsNone(r.res.val) THEN [q |-> r.q, res |-> Ok(None)]
        ELSE IF ~IsOk(b.res) THEN b
        ELSE InsertBuilt(b.q, b.res.val)

\* The outcome of a failed debug_assert!.
Panic == [tag |-> "Panic"]

\* Query::query_meta.
query_meta(q, item, used) ==
    IF item \in DOMAIN q.meta
    THEN IF q.debug_assertions /\ IndexedHas(q.indexed, item)
         THEN [q |-> q, res |-> Panic]
         ELSE [q |-> q, res |-> Ok(Some(q.meta[item]))]
    ELSE query_indexed_meta(q, item, used)

\* import_indexed after the build: b is what build_indexed_entry returned.
ImportIndexedBuilt(b) ==
    IF ~IsOk(b.res) THEN b
    ELSE [q |-> InsertBuilt(b.q, b.res.val).q,
          res |-> IF IsOk(InsertBuilt(b.q, b.res.val).res) THEN Ok(TRUE)
                  ELSE InsertBuilt(b.q, b.res.val).res]

\* Query::import_indexed.
import_indexed(q, item_meta, indexedv, used) ==
    ImportIndexedBuilt(build_indexed_entry(q, IndexedEntry(item_meta, indexedv), used))

\* `.map_err(|e| (location.source_id, e))`: the error e of a query paired
\* with the source of the entry that was queried; a location stands for its
\* source.
WithSourceId(location, e) ==
    [tag |-> "Err", kind |-> e.kind, data |-> e.data, source_id |-> location]

\* Query::queue_unused_entries, the loop over the collected entries.
RECURSIVE QueueUnused(_, _, _)
QueueUnused(q, unused, k) ==
    IF k > Len(unused) THEN [q |-> q, res |-> Ok(TRUE)]
    ELSE LET r == query_indexed_meta(q, unused[k].item, "Unused")
         IN  IF IsErr(r.res)
             THEN [q |-> r.q, res |-> WithSourceId(unused[k].location, r.res)]
             ELSE IF ~IsOk(r.res) THEN r
             ELSE QueueUnused(r.q, unused, k + 1)

\* queue_unused_entries with a slip: the entries are queried from the last
\* to the first.
queue_unused_entries_reversed(q) ==
    LET es == FlattenEntries(q.indexed)
        unused == [i \in 1..Len(es) |->
                     [location |-> es[Len(es) + 1 - i].item_meta.location,
                      item |-> es[Len(es) + 1 - i].item_meta.item]]
    IN  IF Len(unused) = 0 THEN [q |-> q, res |-> Ok(FALSE)]
        ELSE QueueUnused(q, unused, 1)

\* Query::queue_unused_entries.
queue_unused_entries(q) ==
    LET es == FlattenEntries(q.indexed)
        unused == [i \in 1..Len(es) |->
                     [location |-> es[i].item_meta.location,
                      item |-> es[i].item_meta.item]]
    IN  IF Len(unused) = 0 THEN [q |-> q, res |-> Ok(FALSE)]
        ELSE QueueUnused(q, unused, 1)

----------------------------------------------------------------------------
(* Imports. *)

ImportStep(location, item) == [location |-> location, item |-> item]

\* import_step for an entry that is not an import: b is what
\* import_indexed returned.
ImportStepBuilt(b) ==
    IF ~IsOk(b.res) THEN b ELSE [q |-> b.q, res |-> Ok(None)]

\* import_step after remove_indexed returned the entry, the state being q.
ImportStepEntry(q, module, item, used, path, entry) ==
    LET a == check_access_to(q, module, item, entry.item_meta.module,
                             entry.item_meta.location,
                             entry.item_meta.visibility, path)
        m == insert_meta(q, PrivMeta(entry.item_meta, "Import",
                                     entry.indexed.import, FALSE))
    IN  IF ~IsOk(a) THEN [q |-> q, res |-> a]
        ELSE IF entry.indexed.kind = "Import"
        THEN IF ~IsOk(m.res) THEN m
             ELSE [q |-> m.q, res |-> Ok(entry.indexed.import)]
        ELSE ImportStepBuilt(import_indexed(q, entry.item_meta, entry.indexed, used))

\* Query::import_step.
import_step(q, module, item, used, path) ==
    LET r == remove_indexed(q, item)
    IN  IF item \in DOMAIN q.meta
        THEN [q |-> q,
              res |-> Ok(IF q.meta[item].kind = "Import"
                         THEN q.meta[item].import ELSE None)]
        ELSE IF ~IsOk(r.res) THEN r
        ELSE IF IsNone(r.res.val) THEN [q |-> r.q, res |-> Ok(None)]
        ELSE ImportStepEntry(r.q, module, item, used, path, Unwrap(r.res.val))

\* The locals of a call of import at the head of its 'outer loop.  k is the
\* length of the prefix the inner `while let Some(c) = it.next()` loop
\* tries next, 0 at the head of the 'outer loop; res is the returned value,
\* None while the call runs.
ImportLocals(q, module, item, used) ==
    [q |-> q, module |-> module, item |-> item, used |-> used, k |-> 0,
     visited |-> {}, path |-> <<>>, any_matched |-> FALSE, count |-> 0,
     res |-> None]

\* ImportStepped with a slip: the rewritten items are not remembered, so a
\* redirect back to one of them goes unnoticed.
ImportSteppedNoVisited(s, st) ==
    LET update == Unwrap(s.res.val)
        path1 == Append(st.path, ImportStep(update.location, update.target))
    IN  IF ~IsOk(s.res) THEN [st EXCEPT !.q = s.q, !.res = Some(s.res)]
        ELSE IF IsNone(s.res.val) THEN [st EXCEPT !.q = s.q, !.k = st.k + 1]
        ELSE [st EXCEPT !.q = s.q,
                        !.path = path1,
                        !.module = update.module,
                        !.item = update.target \o SubSeq(st.item, st.k + 1, Len(st.item)),
                        !.any_matched = TRUE,
                        !.k = 0]

\* ImportStepped with a slip: after a redirect the inner loop goes on with
\* the next prefix instead of restarting the 'outer loop.
ImportSteppedGoesOn(s, st) ==
    LET update == Unwrap(s.res.val)
        path1 == Append(st.path, ImportStep(update.location, update.target))
    IN  IF ~IsOk(s.res) THEN [st EXCEPT !.q = s.q, !.res = Some(s.res)]
        ELSE IF IsNone(s.res.val) THEN [st EXCEPT !.q = s.q, !.k = st.k + 1]
        ELSE IF st.item \in st.visited
        THEN [st EXCEPT !.q = s.q, !.path = path1,
                        !.res = Some(Err("ImportCycle", [path |-> path1]))]
        ELSE [st EXCEPT !.q = s.q,
                        !.path = path1,
                        !.visited = st.visited \cup {st.item},
                        !.module = update.module,
                        !.item = update.target \o SubSeq(st.item, st.k + 1, Len(st.item)),
                        !.any_matched = TRUE,
                        !.k = st.k + 1]

\* The body of the inner loop after import_step returned s: an error is
\* returned, no redirect goes on with the next prefix, a redirect is
\* recorded and restarts the 'outer loop.
ImportStepped(s, st) ==
    LET update == Unwrap(s.res.val)
        path1 == Append(st.path, ImportStep(update.location, update.target))
    IN  IF ~IsOk(s.res) THEN [st EXCEPT !.q = s.q, !.res = Some(s.res)]
        ELSE IF IsNone(s.res.val) THEN [st EXCEPT !.q = s.q, !.k = st.k + 1]
        ELSE IF st.item \in st.visited
        THEN [st EXCEPT !.q = s.q, !.path = path1,
                        !.res = Some(Err("ImportCycle", [path |-> path1]))]
        ELSE [st EXCEPT !.q = s.q,
                        !.path = path1,
                        !.visited = st.visited \cup {st.item},
                        !.module = update.module,
                        !.item = update.target \o SubSeq(st.item, st.k + 1, Len(st.item)),
                        !.any_matched = TRUE,
                        !.k = 0]

\* ImportWalk with a slip: the counter is not checked.
ImportWalkNoLimit(st) ==
    IF IsSome(st.res) THEN st
    ELSE IF st.k = 0 THEN [st EXCEPT !.count = st.count + 1, !.k = 1]
    ELSE IF st.k > Len(st.item)
    THEN [st EXCEPT !.res = Some(Ok(IF st.any_matched THEN Some(st.item) ELSE None))]
    ELSE ImportStepped(import_step(st.q, st.module, SubSeq(st.item, 1, st.k),
                                   st.used, st.path), st)

\* ImportWalk with a slip: the counter is compared with >= instead of >.
ImportWalkOffByOne(st) ==
    IF IsSome(st.res) THEN st
    ELSE IF st.k = 0
    THEN IF st.count >= IMPORT_RECURSION_LIMIT
         THEN [st EXCEPT !.res = Some(Err("ImportRecursionLimit",
                                          [count |-> st.count, path |-> st.path]))]
         ELSE [st EXCEPT !.count = st.count + 1, !.k = 1]
    ELSE IF st.k > Len(st.item)
    THEN [st EXCEPT !.res = Some(Ok(IF st.any_matched THEN Some(st.item) ELSE None))]
    ELSE ImportStepped(import_step(st.q, st.module, SubSeq(st.item, 1, st.k),
                                   st.used, st.path), st)

\* One pass of the loops of import: the head of the 'outer loop with its
\* check of the counter, the end of the inner loop (break and return), or
\* one pass of the inner loop.  A call that has returned stays as it is.
ImportWalk(st) ==
    IF IsSome(st.res) THEN st
    ELSE IF st.k = 0
    THEN IF st.count > IMPORT_RECURSION_LIMIT
         THEN [st EXCEPT !.res = Some(Err("ImportRecursionLimit",
                                          [count |-> st.count, path |-> st.path]))]
         ELSE [st EXCEPT !.count = st.count + 1, !.k = 1]
    ELSE IF st.k > Len(st.item)
    THEN [st EXCEPT !.res = Some(Ok(IF st.any_matched THEN Some(st.item) ELSE None))]
    ELSE ImportStepped(import_step(st.q, st.module, SubSeq(st.item, 1, st.k),
                                   st.used, st.path), st)

RECURSIVE ImportLoop(_)
\* The loops run pass after pass until the call returns.
ImportLoop(st) == IF IsSome(st.res) THEN st ELSE ImportLoop(ImportWalk(st))

ImportResult(st) == [q |-> st.q, res |-> Unwrap(st.res)]

\* Query::import.
import(q, module, item, used) ==
    ImportResult(ImportLoop(ImportLocals(q, module, item, used)))

\* insert_import with a slip: the module of the import is not looked at
\* when it is decided whether the import is re-exported.
insert_import_visibility(q, location, module, visibility, at, target, alias, wildcard) ==
    LET last_c == IF IsSome(alias) THEN alias
                  ELSE IF Len(target) > 0 THEN Some(target[Len(target)])
                  ELSE None
    IN  IF IsNone(last_c)
        THEN [q |-> q, res |-> Err("LastUseComponent", [target |-> target])]
        ELSE LET item == Append(at, Unwrap(last_c))
                 entry == ImportEntry(location, target, module)
                 item_meta == ItemMeta(location, item, module, visibility)
                 q1 == IF visibility = "Public"
                       THEN push_back(q, BuildEntry(item_meta, "Used", "ReExport"))
                       ELSE q
             IN  [q |-> index(q1, IndexedEntry(item_meta, IndexedImport(entry, wildcard))),
                  res |-> Ok(TRUE)]

\* Query::insert_import; alias is an Option of a component.
insert_import(q, location, module, visibility, at, target, alias, wildcard) ==
    LET last_c == IF IsSome(alias) THEN alias
                  ELSE IF Len(target) > 0 THEN Some(target[Len(target)])
                  ELSE None
    IN  IF IsNone(last_c)
        THEN [q |-> q, res |-> Err("LastUseComponent", [target |-> target])]
        ELSE LET item == Append(at, Unwrap(last_c))
                 entry == ImportEntry(location, target, module)
                 item_meta == ItemMeta(location, item, module, visibility)
                 q1 == IF ItemIsPublic(q, item_meta)
                       THEN push_back(q, BuildEntry(item_meta, "Used", "ReExport"))
                       ELSE q
             IN  [q |-> index(q1, IndexedEntry(item_meta, IndexedImport(entry, wildcard))),
                  res |-> Ok(TRUE)]

\* Query::insert_new_item / insert_new_item_with: the ItemMeta of a new
\* declaration.
insert_new_item(location, item, module, visibility) ==
    ItemMeta(location, item, module, visibility)

\* Query::insert_mod.
insert_mod(q, location, item, parent, visibility) ==
    LET item_meta == insert_new_item(location, item, parent, visibility)
        q1 == alloc_module(q, ModMeta(location, item, visibility, Some(parent)))
    IN  [q |-> index_and_build(q1, IndexedEntry(item_meta, IndexedOther("Module"))),
         res |-> Ok(TRUE)]

\* Default::default() of Location, ModId and Visibility.
DefaultLocation == 0
DefaultVisibility == "Public"

\* Query::insert_context_meta.
insert_context_meta(q, item, kind) ==
    LET pm == PrivMeta(ItemMeta(DefaultLocation, item, RootMod, DefaultVisibility),
                       kind, None, FALSE)
        m == insert_meta(q, pm)
    IN  IF ~IsOk(m.res) THEN m ELSE [q |-> m.q, res |-> Ok(pm)]

----------------------------------------------------------------------------
(* Paths: insert_path, remove_path_by_id, convert_path and                 *)
(* convert_initial_path.  An id is an Option of a NonZeroId; the arguments *)
(* of a generics segment are modelled by their text.                       *)

\* hir::PathSegment: its kind and, for an identifier or generics, its text.
PathSegment(kind, ident) == [kind |-> kind, ident |-> ident]

\* hir::Path: global is whether the path starts with `::`.
Path(id, global, first, rest) ==
    [id |-> id, global |-> global, first |-> first, rest |-> rest]

QueryPath(module, impl_item, item) ==
    [module |-> module, impl_item |-> impl_item, item |-> item]

Named(local, item, generics) ==
    [local |-> local, item |-> item, generics |-> generics]

\* ItemBuf::with_crate: the item of one crate component.
with_crate(name) == << "::" \o name >>

\* Query::insert_path: the table and the generator after the call, and the
\* id returned.
insert_path(paths, g, module, impl_item, item) ==
    [query_paths |-> [i \in DOMAIN paths \cup {g + 1} |->
                        IF i = g + 1 THEN QueryPath(module, impl_item, item)
                        ELSE paths[i]],
     gen |-> g + 1,
     id |-> g + 1]

\* Query::remove_path_by_id.
remove_path_by_id(paths, id) ==
    IF IsSome(id) THEN [i \in DOMAIN paths \ {Unwrap(id)} |-> paths[i]]
    ELSE paths

\* convert_initial_path, the loop: the first hit in the name table, from
\* base outwards, if any.
RECURSIVE InitialPathWalk(_, _, _, _)
InitialPathWalk(q, mod_item, base, local) ==
    IF ~IsPrefix(mod_item, base) THEN None
    ELSE IF names_contains(q, Append(base, local)) THEN Some(Append(base, local))
    ELSE IF Len(base) = 0 THEN None
    ELSE InitialPathWalk(q, mod_item, SubSeq(base, 1, Len(base) - 1), local)

\* convert_initial_path with a slip: the walk goes on above the module.
convert_initial_path_unbounded(q, prelude, context, module, base, local) ==
    LET hit == InitialPathWalk(q, RootItem, base, local)
    IN  IF q.debug_assertions /\ ~IsPrefix(module_item(q, module), base) THEN Panic
        ELSE IF IsSome(hit) THEN Ok(Unwrap(hit))
        ELSE IF local \in DOMAIN prelude THEN Ok(prelude[local])
        ELSE IF local \in context THEN Ok(with_crate(local))
        ELSE Ok(Append(module_item(q, module), local))

\* Query::convert_initial_path; prelude maps names to items, context is the
\* set of the crates of the Context.
convert_initial_path(q, prelude, context, module, base, local) ==
    LET hit == InitialPathWalk(q, module_item(q, module), base, local)
    IN  IF q.debug_assertions /\ ~IsPrefix(module_item(q, module), base) THEN Panic
        ELSE IF IsSome(hit) THEN Ok(Unwrap(hit))
        ELSE IF local \in DOMAIN prelude THEN Ok(prelude[local])
        ELSE IF local \in context THEN Ok(with_crate(local))
        ELSE Ok(Append(module_item(q, module), local))

\* convert_path, `match (path.global, path.first)`: the item the path
\* starts from or the error, whether it starts in `Self`, and the local
\* name.
ConvertFirst(q, prelude, context, qp, path) ==
    LET kind == path.first.kind
        mod_item == module_item(q, qp.module)
        first(res) == [res |-> res, in_self_type |-> FALSE, local |-> None]
    IN  IF path.global
        THEN IF kind = "Ident" THEN first(Ok(with_crate(path.first.ident)))
             ELSE first(Err("UnsupportedGlobal", [segment |-> 0]))
        ELSE CASE kind = "Ident" ->
                    [res |-> convert_initial_path(q, prelude, context, qp.module,
                                                  qp.item, path.first.ident),
                     in_self_type |-> FALSE,
                     local |-> IF path.rest = <<>> THEN Some(path.first.ident)
                               ELSE None]
               [] kind = "Super" ->
                    IF IsSome(Parent(mod_item))
                    THEN first(Ok(Unwrap(Parent(mod_item))))
                    ELSE first(Err("UnsupportedSuper", [segment |-> 0]))
               [] kind = "SelfType" ->
                    IF IsSome(qp.impl_item)
                    THEN [res |-> Ok(Unwrap(qp.impl_item)), in_self_type |-> TRUE,
                          local |-> None]
                    ELSE first(Err("UnsupportedSelfType", [segment |-> 0]))
               [] kind = "SelfValue" -> first(Ok(mod_item))
               [] kind = "Crate" -> first(Ok(RootItem))
               [] kind = "Generics" ->
                    first(Err("UnsupportedGenerics", [segment |-> 0]))

\* ConvertRest with a slip: `super` is accepted after `Self`.
RECURSIVE ConvertRestNoSelfType(_, _, _, _, _)
ConvertRestNoSelfType(item, rest, k, in_self_type, generics) ==
    IF k > Len(rest) THEN Ok([item |-> item, generics |-> generics])
    ELSE IF IsSome(generics) THEN Err("UnsupportedAfterGeneric", [segment |-> k])
    ELSE CASE rest[k].kind = "Ident" ->
                ConvertRestNoSelfType(Append(item, rest[k].ident), rest, k + 1,
                                      in_self_type, generics)
           [] rest[k].kind = "Super" ->
                IF Len(item) = 0
                THEN Err("UnsupportedSuper", [segment |-> k])
                ELSE ConvertRestNoSelfType(SubSeq(item, 1, Len(item) - 1), rest,
                                           k + 1, in_self_type, generics)
           [] rest[k].kind = "Generics" ->
                ConvertRestNoSelfType(item, rest, k + 1, in_self_type,
                                      Some(rest[k].ident))
           [] OTHER -> Err("ExpectedLeadingPathSegment", [segment |-> k])

\* ConvertRest with a slip: `super` leaves the item as it is.
RECURSIVE ConvertRestSuperKeeps(_, _, _, _, _)
ConvertRestSuperKeeps(item, rest, k, in_self_type, generics) ==
    IF k > Len(rest) THEN Ok([item |-> item, generics |-> generics])
    ELSE IF IsSome(generics) THEN Err("UnsupportedAfterGeneric", [segment |-> k])
    ELSE CASE rest[k].kind = "Ident" ->
                ConvertRestSuperKeeps(Append(item, rest[k].ident), rest, k + 1,
                                       in_self_type, generics)
           [] rest[k].kind = "Super" ->
                IF in_self_type
                THEN Err("UnsupportedSuperInSelfType", [segment |-> k])
                ELSE IF Len(item) = 0
                THEN Err("UnsupportedSuper", [segment |-> k])
                ELSE ConvertRestSuperKeeps(item, rest, k + 1, in_self_type,
                                           generics)
           [] rest[k].kind = "Generics" ->
                ConvertRestSuperKeeps(item, rest, k + 1, in_self_type,
                                       Some(rest[k].ident))
           [] OTHER -> Err("ExpectedLeadingPathSegment", [segment |-> k])

\* convert_path, `for segment in path.rest` from the k-th segment on: the
\* item and the generics, or the error.  The second test of
\* `generics.is_some()`, in the arm of Generics, is never true after the
\* first at the head of the loop.
RECURSIVE ConvertRest(_, _, _, _, _)
ConvertRest(item, rest, k, in_self_type, generics) ==
    IF k > Len(rest) THEN Ok([item |-> item, generics |-> generics])
    ELSE IF IsSome(generics) THEN Err("UnsupportedAfterGeneric", [segment |-> k])
    ELSE CASE rest[k].kind = "Ident" ->
                ConvertRest(Append(item, rest[k].ident), rest, k + 1,
                            in_self_type, generics)
           [] rest[k].kind = "Super" ->
                IF in_self_type
                THEN Err("UnsupportedSuperInSelfType", [segment |-> k])
                ELSE IF Len(item) = 0
                THEN Err("UnsupportedSuper", [segment |-> k])
                ELSE ConvertRest(SubSeq(item, 1, Len(item) - 1), rest, k + 1,
                                 in_self_type, generics)
           [] rest[k].kind = "Generics" ->
                ConvertRest(item, rest, k + 1, in_self_type, Some(rest[k].ident))
           [] OTHER -> Err("ExpectedLeadingPathSegment", [segment |-> k])

\* ConvertImported with a slip: the item the path computed is returned
\* whatever import returned.
ConvertImportedKeepsItem(i, local, item, generics) ==
    IF ~IsOk(i.res) THEN i
    ELSE [q |-> i.q, res |-> Ok(Named(local, item, generics))]

\* convert_path after import returned i for the item the path computed.
ConvertImported(i, local, item, generics) ==
    IF ~IsOk(i.res) THEN i
    ELSE [q |-> i.q,
          res |-> Ok(Named(local,
                           IF IsSome(i.res.val) THEN Unwrap(i.res.val) ELSE item,
                           generics))]

\* convert_path after the first segment gave f and the rest gave r.
ConvertSegments(q, qp, f, r) ==
    IF ~IsOk(r) THEN [q |-> q, res |-> r]
    ELSE ConvertImported(import(q, qp.module, r.val.item, "Used"),
                         f.local, r.val.item, r.val.generics)

\* convert_path after the first segment gave f.
ConvertStarted(q, qp, path, f) ==
    IF ~IsOk(f.res) THEN [q |-> q, res |-> f.res]
    ELSE ConvertSegments(q, qp, f,
                         ConvertRest(f.res.val, path.rest, 1, f.in_self_type, None))

\* Query::convert_path; paths is the table query_paths.
convert_path(q, paths, prelude, context, path) ==
    IF (IF IsSome(path.id) THEN Unwrap(path.id) \notin DOMAIN paths ELSE TRUE)
    THEN [q |-> q, res |-> Err("MissingId", [what |-> "path", id |-> path.id])]
    ELSE ConvertStarted(q, paths[Unwrap(path.id)], path,
                        ConvertFirst(q, prelude, context,
                                     paths[Unwrap(path.id)], path))

----------------------------------------------------------------------------
(* The emitter of field accesses, `<value>.<field>`. *)

\* usize::MAX, for a usize of 3 bits.
USIZE_MAX == 7

\* Needs: whether the value of the expression is used.
Needs == {"Value", "None"}

\* InstAddress.
Top == [address |-> "Top"]
Offset(offset) == [address |-> "Offset", offset |-> offset]

\* Inst.
TupleIndexGet(target, idx) ==
    [inst |-> "TupleIndexGet", target |-> target, index |-> idx]
ObjectIndexGet(target, slot) ==
    [inst |-> "ObjectIndexGet", target |-> target, slot |-> slot]
Pop == [inst |-> "Pop"]

\* The instructions a sub-expression compiles to, as one instruction.
ExprCode(expr) == [inst |-> "Expr", expr |-> expr]

\* Value::unnamed and Value::empty.
ValueUnnamed == [value |-> "unnamed"]
ValueEmpty == [value |-> "empty"]

\* A compiler that has emitted nothing, with no local in scope.
EmptyCompiler == [asm |-> <<>>, warnings |-> 0, scopes |-> <<>>, strings |-> <<>>]

\* c.asm.push(inst, span).
asm_push(c, inst) == [c EXCEPT !.asm = Append(c.asm, inst)]

\* c.warnings.not_used(..).
not_used(c) == [c EXCEPT !.warnings = c.warnings + 1]

\* ast::Path::try_as_ident: the identifier, if the path is nothing else.
try_as_ident(path) ==
    IF Len(path.segments) = 1 THEN Some(path.segments[1]) ELSE None

\* usize::try_from(index).
usize_try_from(n) ==
    IF 0 <= n /\ n <= USIZE_MAX THEN Ok(n) ELSE Err("TryFromIntError", n)

\* ast::Number::as_tuple_index.
as_tuple_index(number) ==
    IF number.kind = "Integer" /\ IsOk(usize_try_from(number.value))
    THEN Some(number.value) ELSE None

\* Scopes::try_get_var: the variable of that name in scope, if any.
try_get_var(c, ident) ==
    IF ident \in DOMAIN c.scopes THEN Some(c.scopes[ident]) ELSE None

\* Offset::translate: the address of the local in the frame.
translate(var) == var.offset

\* UnitBuilder::new_static_string: the slot of the string, interned.
new_static_string(c, field) ==
    IF \E i \in 1..Len(c.strings) : c.strings[i] = field
    THEN [c |-> c, slot |-> CHOOSE i \in 1..Len(c.strings) : c.strings[i] = field]
    ELSE [c |-> [c EXCEPT !.strings = Append(c.strings, field)],
          slot |-> Len(c.strings) + 1]

\* try_immediate_field_access_optimization with a slip: the index is not
\* converted to usize.
try_immediate_field_access_unchecked(c, path, n, needs) ==
    IF IsNone(try_as_ident(path)) THEN [c |-> c, res |-> Ok(None)]
    ELSE IF n.kind # "Integer" THEN [c |-> c, res |-> Ok(None)]
    ELSE IF IsNone(try_get_var(c, Unwrap(try_as_ident(path))))
    THEN [c |-> c, res |-> Ok(None)]
    ELSE LET var == Unwrap(try_get_var(c, Unwrap(try_as_ident(path))))
             c1 == asm_push(c, TupleIndexGet(Offset(translate(var)), n.value))
         IN  [c |-> IF needs # "Value" THEN asm_push(not_used(c1), Pop) ELSE c1,
              res |-> Ok(Some(ValueUnnamed))]

\* try_immediate_field_access_optimization.
try_immediate_field_access_optimization(c, path, n, needs) ==
    IF IsNone(try_as_ident(path)) THEN [c |-> c, res |-> Ok(None)]
    ELSE IF n.kind # "Integer" THEN [c |-> c, res |-> Ok(None)]
    ELSE IF ~IsOk(usize_try_from(n.value)) THEN [c |-> c, res |-> Ok(None)]
    ELSE IF IsNone(try_get_var(c, Unwrap(try_as_ident(path))))
    THEN [c |-> c, res |-> Ok(None)]
    ELSE LET var == Unwrap(try_get_var(c, Unwrap(try_as_ident(path))))
             c1 == asm_push(c, TupleIndexGet(Offset(translate(var)),
                                             usize_try_from(n.value).val))
         IN  [c |-> IF needs # "Value" THEN asm_push(not_used(c1), Pop) ELSE c1,
              res |-> Ok(Some(ValueUnnamed))]

\* self.expr.assemble(c, Needs::Value)?.consuming_address(c)?: the code of
\* the expression is emitted and its value is on top of the stack.
ExprAssemble(c, expr) == [c |-> asm_push(c, ExprCode(expr)), target |-> Top]

\* The end of both arms of the general path: the value is popped if it is
\* not needed.
AssembleNeeds(c, needs) ==
    IF needs # "Value"
    THEN [c |-> asm_push(not_used(c), Pop), res |-> Ok(ValueEmpty)]
    ELSE [c |-> c, res |-> Ok(ValueUnnamed)]

\* AssembleGeneral with a slip: the field's name is given a new slot
\* whether it was interned before or not.
AssembleGeneralNotInterned(c, expr, expr_field, needs) ==
    LET e == ExprAssemble(c, expr)
    IN  IF expr_field.kind = "LitNumber"
        THEN IF IsNone(as_tuple_index(expr_field.number))
             THEN [c |-> e.c, res |-> Err("BadFieldAccess", expr_field)]
             ELSE AssembleNeeds(
                      asm_push(e.c, TupleIndexGet(e.target,
                                                  Unwrap(as_tuple_index(expr_field.number)))),
                      needs)
        ELSE AssembleNeeds(
                 asm_push([e.c EXCEPT !.strings = Append(e.c.strings, expr_field.name)],
                          ObjectIndexGet(e.target, Len(e.c.strings) + 1)),
                 needs)

\* ExprFieldAccess::assemble after the optimization was not taken.
AssembleGeneral(c, expr, expr_field, needs) ==
    LET e == ExprAssemble(c, expr)
    IN  IF expr_field.kind = "LitNumber"
        THEN IF IsNone(as_tuple_index(expr_field.number))
             THEN [c |-> e.c, res |-> Err("BadFieldAccess", expr_field)]
             ELSE AssembleNeeds(
                      asm_push(e.c, TupleIndexGet(e.target,
                                                  Unwrap(as_tuple_index(expr_field.number)))),
                      needs)
        ELSE LET s == new_static_string(e.c, expr_field.name)
             IN  AssembleNeeds(asm_push(s.c, ObjectIndexGet(e.target, s.slot)), needs)

\* What assemble does with what the optimization returned.
AssembleOptimized(t, expr, expr_field, needs) ==
    IF IsSome(t.res.val) THEN [c |-> t.c, res |-> Ok(Unwrap(t.res.val))]
    ELSE AssembleGeneral(t.c, expr, expr_field, needs)

\* ExprFieldAccess::assemble.
assemble(c, expr, expr_field, needs) ==
    IF expr.kind = "Path" /\ expr_field.kind = "LitNumber"
    THEN AssembleOptimized(
             try_immediate_field_access_optimization(c, expr, expr_field.number, needs),
             expr, expr_field, needs)
    ELSE AssembleGeneral(c, expr, expr_field, needs)

----------------------------------------------------------------------------
(* The engine as a state machine. *)

\* The engine state as the operators take it.
Q ==
    [meta |-> meta, queue |-> queue, indexed |-> indexed, names |-> names,
     modules |-> modules, unit |-> unit, registered |-> registered,
     debug_assertions |-> debug_assertions, pushed |-> pushed]

Op(op, item, used, res) == [op |-> op, item |-> item, used |-> used, res |-> res]

\* The variables of the engine take the state q.
Store(q) ==
    /\ meta' = q.meta
    /\ queue' = q.queue
    /\ indexed' = q.indexed
    /\ names' = q.names
    /\ modules' = q.modules
    /\ unit' = q.unit
    /\ registered' = q.registered
    /\ pushed' = q.pushed
    /\ UNCHANGED <<debug_assertions, compiler, query_paths, gen>>

\* The variables take the state q; the call is recorded as the last one.
Commit(q, op) ==
    /\ Store(q)
    /\ last' = op
    /\ UNCHANGED call

\* A failed assertion ends the process.
Running == last.res.tag # "Panic"

\* Query::insert_root_mod: the root module, public, without parent.
RootModMeta == ModMeta(DefaultLocation, RootItem, "Public", None)

\* The engine after construction and insert_root_mod.
Init ==
    /\ meta = <<>>
    /\ queue = <<>>
    /\ indexed = <<>>
    /\ names = {RootItem}
    /\ modules = <<RootModMeta>>
    /\ unit = {}
    /\ registered = 0
    /\ decls = 0
    /\ debug_assertions \in BOOLEAN
    /\ pushed = <<>>
    /\ popped = <<>>
    /\ call = None /\ query_paths = <<>> /\ gen = 0
    /\ compiler = EmptyCompiler
    /\ last = Op("new", RootItem, "Used", Ok(TRUE))

\* The innermost module that encloses a declaration of the item.
DeclModule(q, item) ==
    LET ids == {i \in 1..Len(q.modules) :
                  /\ Len(q.modules[i].item) < Len(item)
                  /\ IsPrefix(q.modules[i].item, item)}
    IN  CHOOSE i \in ids : \A j \in ids : Len(q.modules[j].item) <= Len(q.modules[i].item)

\* What the program under compilation declares.
DeclItems == {<<"a">>, <<"b">>}

DeclIndexed == {IndexedOther("Function"), IndexedConst(Ir(<< <<"b">> >>, TRUE))}

BuildItems == {<<"a">>}

BuildIndexed == {IndexedOther("Struct")}

\* `pub use b as a`, `use b::a`, `use b::*` (bringing a) and a use without a
\* last component.
UseDecls ==
    {[target |-> <<"b">>, alias |-> Some("a"), wildcard |-> FALSE, visibility |-> "Public"],
     [target |-> <<"b", "a">>, alias |-> None, wildcard |-> FALSE, visibility |-> "Inherited"],
     [target |-> <<"b", "a">>, alias |-> None, wildcard |-> TRUE, visibility |-> "Inherited"],
     [target |-> <<>>, alias |-> None, wildcard |-> FALSE, visibility |-> "Inherited"]}

ModDecls == {[item |-> <<"b">>, visibility |-> "Inherited"]}

QueryItems == {<<"a">>, <<"b">>}

ImportItems == {<<"a">>, <<"b", "a">>}

CtxItems == {<<"a">>}

Index ==
    /\ Running
    /\ decls < MaxEntries
    /\ \E item \in DeclItems, ix \in DeclIndexed :
         LET item_meta == insert_new_item(decls + 1, item, DeclModule(Q, item), "Inherited")
         IN  Commit(index(Q, IndexedEntry(item_meta, ix)),
                    Op("index", item, "Used", Ok(TRUE)))
    /\ decls' = decls + 1
    /\ UNCHANGED popped

IndexAndBuild ==
    /\ Running
    /\ decls < MaxEntries
    /\ \E item \in BuildItems, ix \in BuildIndexed :
         LET item_meta == insert_new_item(decls + 1, item, DeclModule(Q, item), "Public")
         IN  Commit(index_and_build(Q, IndexedEntry(item_meta, ix)),
                    Op("index_and_build", item, "Used", Ok(TRUE)))
    /\ decls' = decls + 1
    /\ UNCHANGED popped

InsertImport ==
    /\ Running
    /\ decls < MaxEntries
    /\ \E u \in UseDecls :
         LET r == insert_import(Q, decls + 1, RootMod, u.visibility, RootItem,
                                u.target, u.alias, u.wildcard)
         IN  Commit(r.q, Op("insert_import", u.target, "Used", r.res))
    /\ decls' = decls + 1
    /\ UNCHANGED popped

InsertMod ==
    /\ Running
    /\ decls < MaxEntries
    /\ \E m \in ModDecls :
         LET r == insert_mod(Q, decls + 1, m.item, DeclModule(Q, m.item), m.visibility)
         IN  Commit(r.q, Op("insert_mod", m.item, "Used", r.res))
    /\ decls' = decls + 1
    /\ UNCHANGED popped

InsertContextMeta ==
    /\ Running
    /\ decls < MaxEntries
    /\ \E item \in CtxItems :
         LET r == insert_context_meta(Q, item, "Function")
         IN  Commit(r.q, Op("insert_context_meta", item, "Used", r.res))
    /\ decls' = decls + 1
    /\ UNCHANGED popped

QueryMeta ==
    /\ Running
    /\ \E item \in QueryItems :
         LET r == query_meta(Q, item, "Used")
         IN  Commit(r.q, Op("query_meta", item, "Used", r.res))
    /\ UNCHANGED <<decls, popped>>

Import ==
    /\ Running
    /\ \E module \in 1..Len(modules), item \in ImportItems :
         LET r == import(Q, module, item, "Used")
         IN  Commit(r.q, Op("import", item, "Used", r.res))
    /\ UNCHANGED <<decls, popped>>

QueueUnusedEntries ==
    /\ Running
    /\ LET r == queue_unused_entries(Q)
       IN  Commit(r.q, Op("queue_unused_entries", RootItem, "Unused", r.res))
    /\ UNCHANGED <<decls, popped>>

NextBuildEntry ==
    /\ Running
    /\ LET r == next_build_entry(Q)
       IN  /\ Commit(r.q, Op("next_build_entry", RootItem, "Used", Ok(r.res)))
           /\ popped' = popped \o r.res
    /\ UNCHANGED decls

Next ==
    \/ Index
    \/ IndexAndBuild
    \/ InsertImport
    \/ InsertMod
    \/ InsertContextMeta
    \/ QueryMeta
    \/ Import
    \/ QueueUnusedEntries
    \/ NextBuildEntry

Spec == Init /\ [][Next]_vars

----------------------------------------------------------------------------
(* remove_indexed on its own: the engine right after a list of entries was *)
(* indexed under one item, and the call that removes them.                 *)

RemoveItem == <<"x">>

\* Every kind of entry, and imports with and without wildcard of two targets.
RemoveShapes ==
    {IndexedOther(k) : k \in IndexedKinds \ {"Import"}}
    \cup {IndexedImport(ImportEntry(DefaultLocation, t, RootMod), w) :
            t \in {<<"a", "x">>, <<"b", "x">>}, w \in BOOLEAN}

RemoveLists == UNION {[1..n -> RemoveShapes] : n \in 1..MaxLen}

\* The i-th declaration of the list: its location is its position.
RemoveEntry(shapes, i) ==
    IndexedEntry(ItemMeta(i, RemoveItem, RootMod, "Inherited"),
                 IF shapes[i].kind = "Import"
                 THEN IndexedImport(ImportEntry(i, Unwrap(shapes[i].import).target, RootMod),
                                    shapes[i].wildcard)
                 ELSE shapes[i])

RemoveEntries(shapes) == [i \in 1..Len(shapes) |-> RemoveEntry(shapes, i)]

RECURSIVE IndexAll(_, _, _)
\* index called for each entry of the list, in order.
IndexAll(q, es, i) ==
    IF i > Len(es) THEN q ELSE IndexAll(index(q, es[i]), es, i + 1)

EmptyQ ==
    [meta |-> <<>>, queue |-> <<>>, indexed |-> <<>>, names |-> {RootItem},
     modules |-> <<RootModMeta>>, unit |-> {}, registered |-> 0,
     debug_assertions |-> FALSE, pushed |-> <<>>]

InitRemove ==
    \E shapes \in RemoveLists :
        LET es == RemoveEntries(shapes)
            q == IndexAll(EmptyQ, es, 1)
        IN  /\ meta = q.meta
            /\ queue = q.queue
            /\ indexed = q.indexed
            /\ names = q.names
            /\ modules = q.modules
            /\ unit = q.unit
            /\ registered = q.registered
            /\ decls = Len(es)
            /\ debug_assertions = FALSE
            /\ pushed = <<>>
            /\ popped = <<>>
            /\ call = None /\ query_paths = <<>> /\ gen = 0
            /\ compiler = EmptyCompiler
            /\ last = [op |-> "index", item |-> RemoveItem, used |-> "Used",
                       res |-> Ok(TRUE), entries |-> es]

RemoveIndexed ==
    /\ last.op = "index"
    /\ LET r == remove_indexed(Q, RemoveItem)
       IN  Commit(r.q, [op |-> "remove_indexed", item |-> RemoveItem,
                        used |-> "Used", res |-> r.res, entries |-> last.entries])
    /\ UNCHANGED <<decls, popped>>

NextRemove == RemoveIndexed

SpecRemove == InitRemove /\ [][NextRemove]_vars

----------------------------------------------------------------------------
(* Properties of the engine (specification Spec). *)

\* The last call entered query_meta or import with exactly this item.
Reaches(l, item) == l.op \in {"query_meta", "import"} /\ l.item = item

\* The item of the meta an insert_meta call was refused for.
ConflictItem(l) == l.res.data.current.item_meta.item

\* C1: insert_meta succeeds at most once per item.  In every step the metas
\* already stored stay as they are, at most one meta is added per
\* insert_meta call, an insert_context_meta for an item that has meta
\* returns MetaConflict carrying the new and the stored meta, and a
\* MetaConflict always names the meta the cache holds.
C1_InsertMetaOnce ==
    [][ /\ \A i \in DOMAIN meta : i \in DOMAIN meta' /\ meta'[i] = meta[i]
        /\ Cardinality(DOMAIN meta') - Cardinality(DOMAIN meta)
              <= registered' - registered
        /\ (last'.op = "insert_context_meta" /\ last'.item \in DOMAIN meta)
              => /\ IsErrKind(last'.res, "MetaConflict")
                 /\ ConflictItem(last') = last'.item
                 /\ last'.res.data.existing = meta[last'.item]
                 /\ meta' = meta
        /\ (IsErrKind(last'.res, "MetaConflict") /\ registered' # registered)
              => /\ ConflictItem(last') \in DOMAIN meta'
                 /\ last'.res.data.existing = meta'[ConflictItem(last')]
      ]_vars

\* C1 witness: an insert_context_meta was refused with MetaConflict for an
\* item whose meta had been built from an indexed entry.
C1_Witness ==
    /\ last.op = "insert_context_meta"
    /\ IsErrKind(last.res, "MetaConflict")
    /\ last.res.data.existing.source
    /\ meta[last.item] = last.res.data.existing

\* C2: no item is at the same time a key of the meta cache and a key of the
\* indexer, and the debug assertion of query_meta never fails.
C2_MetaIndexedDisjoint ==
    /\ \A i \in DOMAIN meta : ~IndexedHas(indexed, i)
    /\ last.res.tag # "Panic"

\* C3: when query_meta(I) returned Some(meta), the indexer holds no entry
\* for I.
C3_QueryMetaEmptiesIndexer ==
    (last.op = "query_meta" /\ IsOk(last.res) /\ IsSome(last.res.val))
        => ~IndexedHas(indexed, last.item)

\* The cache holds for the item a meta that a query built and returned:
\* only query_indexed_meta stores metas with a source that are no imports.
QueryBuilt(item) ==
    /\ item \in DOMAIN meta
    /\ meta[item].source
    /\ meta[item].kind # "Import"

\* C36: once query_meta(I) has returned Some(m), every later query_meta(I)
\* returns the same m and builds nothing: the meta cache, the build queue,
\* the indexer and the unit stay as they are.
C36_CachedQuery ==
    [][ (last'.op = "query_meta" /\ QueryBuilt(last'.item))
            => /\ last'.res = Ok(Some(meta[last'.item]))
               /\ UNCHANGED <<meta, queue, indexed, unit>>
      ]_vars

\* C38: register_meta is called once per call of insert_meta, stored or
\* refused.  Every insert_context_meta makes one call; one that is refused
\* with MetaConflict leaves the cache as it was, so the visitor was handed
\* a meta that was not stored; and every operation makes one call for each
\* meta it adds to the cache and one more when it ends in a MetaConflict.
C38_RegisterEveryCall ==
    [][ /\ last'.op = "insert_context_meta" => registered' = registered + 1
        /\ (last'.op = "insert_context_meta" /\ IsErrKind(last'.res, "MetaConflict"))
              => meta' = meta
        /\ registered' - registered =
              Cardinality(DOMAIN meta') - Cardinality(DOMAIN meta)
              + (IF IsErrKind(last'.res, "MetaConflict") THEN 1 ELSE 0)
      ]_vars

\* A function a of the context is refused because a was built from the
\* sources: the visitor has seen one meta more than the cache holds.
C38_Witness ==
    /\ last.op = "insert_context_meta"
    /\ IsErrKind(last.res, "MetaConflict")
    /\ ~last.res.data.current.source
    /\ meta[last.item].source
    /\ registered = Cardinality(DOMAIN meta) + 1

\* The item a call of import ended on: the rewritten item, or the item it
\* was called with when it returned none.
EndedOn(l) == IF IsSome(l.res.val) THEN Unwrap(l.res.val) ELSE l.item

\* C39: after import returned without error, no non-empty prefix of the
\* item it ended on has an entry left in the indexer.
C39_ImportEmptiesPrefixes ==
    (last.op = "import" /\ IsOk(last.res)) =>
        \A k \in 1..Len(EndedOn(last)) :
            ~IndexedHas(indexed, SubSeq(EndedOn(last), 1, k))

\* The number of imports without wildcard indexed under the item.
ExplicitImports(ix, item) ==
    LET es == IndexedGet(ix, item)
    IN  Cardinality({i \in 1..Len(es) :
                       es[i].indexed.kind = "Import" /\ ~es[i].indexed.wildcard})

\* A query_meta or import of the item I, entered where I has no meta and two
\* imports without wildcard are indexed under it, fails with AmbiguousItem.
FirstReferenceAmbiguous(I) ==
    (/\ I \notin DOMAIN meta
     /\ ExplicitImports(indexed, I) >= 2
     /\ Reaches(last', I))
        => /\ IsErrKind(last'.res, "AmbiguousItem")
           /\ last'.res.data.item = I
           /\ Len(last'.res.data.locations) = Len(IndexedGet(indexed, I))

\* The last call was a query_meta or import of I that failed with
\* AmbiguousItem over imports alone: every listed entry names the target of
\* an import, which is never I itself.
ImportsWereAmbiguous(l, I) ==
    /\ Reaches(l, I)
    /\ IsErrKind(l.res, "AmbiguousItem")
    /\ l.res.data.item = I
    /\ \A i \in 1..Len(l.res.data.locations) : l.res.data.locations[i][2] # I

C9_QueueFifo ==
    /\ pushed = popped \o queue
    /\ (last.op = "next_build_entry" /\ IsNone(last.res.val)) => queue = <<>>
    /\ (last.op = "next_build_entry" /\ IsSome(last.res.val))
          => (popped # <<>> /\ Unwrap(last.res.val) = pushed[Len(popped)])

\* C9 witness: two entries pushed by different operations were popped, with
\* a third still queued.
C9_Witness ==
    /\ last.op = "next_build_entry"
    /\ Len(popped) = 2
    /\ popped[1].build # popped[2].build
    /\ popped[1].item_meta.location > popped[2].item_meta.location
    /\ Len(queue) = 1

\* C10: every item that has an entry in the indexer is in the name table,
\* and no name is ever removed.
C10_NamesCoverIndexed ==
    /\ [](\A i \in IndexedKeys(indexed) : names_contains(Q, i))
    /\ [][names \subseteq names']_vars

\* C10 witness: an item is still in the name table after query_meta took its
\* entry out of the indexer and built its meta.
C10_Witness ==
    /\ last.op = "query_meta"
    /\ last.item # RootItem
    /\ names_contains(Q, last.item)
    /\ ~IndexedHas(indexed, last.item)
    /\ last.item \in DOMAIN meta
    /\ meta[last.item].source

----------------------------------------------------------------------------
(* Properties of remove_indexed (specification SpecRemove). *)

Removed == last.op = "remove_indexed"

\* The positions of the entries that are not wildcard imports.
NonWildcards(es) == {i \in 1..Len(es) : ~IsWildcard(es[i])}

AllImports(es) == \A i \in 1..Len(es) : es[i].indexed.kind = "Import"

\* C4: when the entries of the item are one import without wildcard and any
\* number of wildcard imports, in any order, remove_indexed returns the
\* import without wildcard.
C4_ExplicitImportWins ==
    (Removed /\ AllImports(last.entries)
       /\ Cardinality(NonWildcards(last.entries)) = 1)
        => \E p \in NonWildcards(last.entries) :
              last.res = Ok(Some(last.entries[p]))

\* C4 witness: the import without wildcard was returned from between two
\* wildcard imports.
C4_Witness ==
    /\ Removed
    /\ Len(last.entries) = 3
    /\ NonWildcards(last.entries) = {2}
    /\ AllImports(last.entries)
    /\ last.res = Ok(Some(last.entries[2]))

\* C5 as claimed: a single entry that is no wildcard import, of any kind,
\* wins over any number of wildcard imports.
C5_SingleEntryWins ==
    (Removed /\ Cardinality(NonWildcards(last.entries)) = 1)
        => \E p \in NonWildcards(last.entries) :
              last.res = Ok(Some(last.entries[p]))

\* C5 as amended: among wildcard imports a single import without wildcard
\* wins, in every order; when the single other entry is not an import
\* (a function, struct, enum, const, module, ...) and at least one wildcard
\* import is indexed with it, remove_indexed fails with AmbiguousItem.
C5_SingleImportWins ==
    (Removed /\ Cardinality(NonWildcards(last.entries)) = 1)
        => \E p \in NonWildcards(last.entries) :
              IF last.entries[p].indexed.kind = "Import" \/ Len(last.entries) = 1
              THEN last.res = Ok(Some(last.entries[p]))
              ELSE IsErrKind(last.res, "AmbiguousItem")

\* C5 witness: a function indexed after a wildcard import made the lookup
\* ambiguous.
C5_Witness ==
    /\ Removed
    /\ Len(last.entries) = 2
    /\ IsWildcard(last.entries[1])
    /\ last.entries[2].indexed.kind = "Function"
    /\ IsErrKind(last.res, "AmbiguousItem")

\* C6: remove_indexed fails with AmbiguousItem when two or more entries are
\* no wildcard imports, and when there are two or more entries that are all
\* wildcard imports; a single entry of any kind is returned.  Either way the
\* indexer holds nothing for the item afterwards.
C6_AmbiguousItem ==
    Removed =>
        /\ Cardinality(NonWildcards(last.entries)) >= 2
              => IsErrKind(last.res, "AmbiguousItem")
        /\ (Len(last.entries) >= 2 /\ NonWildcards(last.entries) = {})
              => IsErrKind(last.res, "AmbiguousItem")
        /\ Len(last.entries) = 1 => last.res = Ok(Some(last.entries[1]))
        /\ ~IndexedHas(indexed, RemoveItem)

\* C6 witness: two wildcard imports of the same target were ambiguous.
C6_Witness ==
    /\ Removed
    /\ Len(last.entries) = 2
    /\ NonWildcards(last.entries) = {}
    /\ EntryItem(last.entries[1]) = EntryItem(last.entries[2])
    /\ IsErrKind(last.res, "AmbiguousItem")

\* C7: an AmbiguousItem error lists the location of every entry that was
\* indexed under the item, once each, in the order in which they were
\* indexed.
C7_LocationsInOrder ==
    (Removed /\ IsErrKind(last.res, "AmbiguousItem"))
        => /\ Len(last.res.data.locations) = Len(last.entries)
           /\ \A i \in 1..Len(last.entries) :
                 last.res.data.locations[i] =
                    <<last.entries[i].item_meta.location, EntryItem(last.entries[i])>>
           /\ last.res.data.item = RemoveItem

\* C7 witness: the error was raised at the second of three entries, and the
\* third is listed all the same.
C7_Witness ==
    /\ Removed
    /\ Len(last.entries) = 3
    /\ {1, 2} \subseteq NonWildcards(last.entries)
    /\ IsErrKind(last.res, "AmbiguousItem")
    /\ last.res.data.locations[3][1] = 3

----------------------------------------------------------------------------
(* import on its own: the imports of a program are declared one by one,    *)
(* then import is called from the modules of the program.  A call runs     *)
(* pass by pass of its loops, its locals kept in call.                     *)

\* The longest chain of imports a program declares.
MaxChain == 130

\* The name `use` gives the i-th import of a chain.
HopName(i) == ToString(i)

Hop(i) == <<HopName(i)>>

PrivateMod == <<"m">>

PrivateItem == <<"m", "a">>

PrivateTarget == <<"t">>

\* Short chains, and chains about as long as the recursion limit.
ChainLengths == {n \in 1..MaxChain : n <= 3 \/ n >= MaxChain - 3}

\* A chain declares, in the root module, `use <i+1> as <i>` for i in 1..n;
\* with back > 0 the last import is `use <back> as <n>` and closes a cycle.
ChainPrograms ==
    {p \in [kind : {"chain"}, n : ChainLengths, back : 0..2,
            visibility : {"Inherited"}, modvis : {"Inherited"}] : p.back <= p.n}

\* `mod m { use t as a; }` with every visibility of the import and of m.
PrivatePrograms ==
    [kind : {"private"}, n : {2}, back : {0}, visibility : Visibility,
     modvis : {"Inherited", "Super", "Public"}]

\* `use 1::x as 1`: every redirect makes the item longer.
GrowPrograms ==
    [kind : {"grow"}, n : {1}, back : {0}, visibility : {"Inherited"},
     modvis : {"Inherited"}]

\* `use 2 as 1` and, under the name 1, `use 3 as x`.
ShadowPrograms ==
    [kind : {"shadow"}, n : {2}, back : {0}, visibility : {"Inherited"},
     modvis : {"Inherited"}]

Programs == ChainPrograms \cup PrivatePrograms \cup GrowPrograms \cup ShadowPrograms

HopTarget(p, i) ==
    IF p.kind = "grow" THEN Append(Hop(i), "x")
    ELSE IF i < p.n \/ p.back = 0 THEN Hop(i + 1) ELSE Hop(p.back)

\* What the calls of the program are recorded with.
ProgOp(op, item, module, res, p) ==
    [op |-> op, item |-> item, used |-> "Used", res |-> res, module |-> module,
     prog |-> p]

InitImport ==
    /\ meta = EmptyQ.meta
    /\ queue = EmptyQ.queue
    /\ indexed = EmptyQ.indexed
    /\ names = EmptyQ.names
    /\ modules = EmptyQ.modules
    /\ unit = EmptyQ.unit
    /\ registered = EmptyQ.registered
    /\ pushed = EmptyQ.pushed
    /\ decls = 0
    /\ debug_assertions = FALSE
    /\ popped = <<>>
    /\ call = None /\ query_paths = <<>> /\ gen = 0
    /\ compiler = EmptyCompiler
    /\ \E p \in Programs : last = ProgOp("new", RootItem, RootMod, Ok(TRUE), p)

\* The indexer sees the next import of the chain: Query::insert_import.
DeclareHop ==
    /\ last.prog.kind \in {"chain", "grow"}
    /\ decls < last.prog.n
    /\ LET r == insert_import(Q, decls + 1, RootMod, last.prog.visibility,
                              RootItem, HopTarget(last.prog, decls + 1),
                              Some(HopName(decls + 1)), FALSE)
       IN  Commit(r.q, ProgOp("insert_import", Hop(decls + 1), RootMod, r.res,
                              last.prog))
    /\ decls' = decls + 1
    /\ UNCHANGED popped

\* The indexer sees the imports of the shadow program: Query::insert_import.
DeclareShadow ==
    /\ last.prog.kind = "shadow"
    /\ decls < 2
    /\ LET r == insert_import(Q, decls + 1, RootMod, last.prog.visibility,
                              IF decls = 0 THEN RootItem ELSE Hop(1),
                              IF decls = 0 THEN Hop(2) ELSE Hop(3),
                              Some(IF decls = 0 THEN HopName(1) ELSE "x"), FALSE)
       IN  Commit(r.q, ProgOp("insert_import",
                              IF decls = 0 THEN Hop(1) ELSE Append(Hop(1), "x"),
                              RootMod, r.res, last.prog))
    /\ decls' = decls + 1
    /\ UNCHANGED popped

\* The indexer sees `mod m`: Query::insert_mod.
DeclareMod ==
    /\ last.prog.kind = "private"
    /\ decls = 0
    /\ LET r == insert_mod(Q, 1, PrivateMod, RootMod, last.prog.modvis)
       IN  Commit(r.q, ProgOp("insert_mod", PrivateMod, RootMod, r.res, last.prog))
    /\ decls' = 1
    /\ UNCHANGED popped

\* The indexer sees `use t as a` inside m: Query::insert_import.
DeclarePrivate ==
    /\ last.prog.kind = "private"
    /\ decls = 1
    /\ LET r == insert_import(Q, 2, 2, last.prog.visibility, PrivateMod,
                              PrivateTarget, Some("a"), FALSE)
       IN  Commit(r.q, ProgOp("insert_import", PrivateItem, 2, r.res, last.prog))
    /\ decls' = 2
    /\ UNCHANGED popped

\* The items the program's code refers to.
ImportCalls(p) ==
    CASE p.kind = "chain" -> {Hop(1), Hop(2), Append(Hop(1), "x")}
      [] p.kind = "grow" -> {Hop(1)}
      [] p.kind = "shadow" -> {Append(Hop(1), "x")}
      [] OTHER -> {PrivateItem, Append(PrivateMod, "z")}

\* Query::import is entered from a module of the program.
ImportBegin ==
    /\ IsNone(call)
    /\ decls = last.prog.n
    /\ \E module \in 1..Len(modules), item \in ImportCalls(last.prog) :
         call' = Some([module |-> module, item |-> item,
                       st |-> [ImportLocals(Q, module, item, "Used")
                                 EXCEPT !.q = None]])
    /\ UNCHANGED <<meta, queue, indexed, names, modules, unit, registered,
                   decls, debug_assertions, pushed, popped, compiler, query_paths,
                   gen, last>>

\* The engine after a pass of the loops that left the locals st, in the call
\* begun with a module and an item: the call goes on, or it has returned.
ImportPassed(st, begun) ==
    /\ Store(st.q)
    /\ IF IsSome(st.res)
       THEN /\ call' = None
            /\ last' = ProgOp("import", begun.item, begun.module, Unwrap(st.res),
                              last.prog)
       ELSE /\ call' = Some([begun EXCEPT !.st = [st EXCEPT !.q = None]])
            /\ UNCHANGED last
    /\ UNCHANGED <<decls, popped>>

\* One pass of the loops of the running call of import.
ImportPass ==
    /\ IsSome(call)
    /\ ImportPassed(ImportWalk([Unwrap(call).st EXCEPT !.q = Q]), Unwrap(call))

NextImport ==
    \/ DeclareHop
    \/ DeclareShadow
    \/ DeclareMod
    \/ DeclarePrivate
    \/ ImportBegin
    \/ ImportPass

SpecImport == InitImport /\ [][NextImport]_vars

----------------------------------------------------------------------------
(* Properties of import (specification SpecImport). *)

\* The last call was an import of the j-th name of a chain program.
ImportedHop(j) ==
    last.op = "import" /\ last.prog.kind = "chain" /\ last.item = Hop(j)

\* The redirects a call for the j-th name of the chain follows before it
\* comes to a name that is not an import (straight chain).
Hops(p, j) == IF j <= p.n THEN p.n - j + 1 ELSE 0

\* The length of the cycle of a chain that is closed.
CycleLen(p) == p.n - p.back + 1

\* The redirects a call for the j-th name follows before it enters the
\* cycle.
TailLen(p, j) == IF j < p.back THEN p.back - j ELSE 0

\* The error's path holds the step of every import of the cycle, with the
\* location of its declaration.
PathCoversCycle(p, path) ==
    \A i \in p.back..p.n :
        \E k \in 1..Len(path) : path[k] = ImportStep(i, HopTarget(p, i))

\* C11 as claimed: when the redirects reachable from the item close a cycle
\* of at most IMPORT_RECURSION_LIMIT imports, import fails with ImportCycle,
\* and the error's path holds the steps of the cycle.
C11_CycleWithinLimit ==
    \A j \in 1..2 :
        (ImportedHop(j) /\ last.prog.back > 0 /\ j <= last.prog.n
           /\ CycleLen(last.prog) <= IMPORT_RECURSION_LIMIT)
            => /\ IsErrKind(last.res, "ImportCycle")
               /\ PathCoversCycle(last.prog, last.res.data.path)

\* C11 as amended: import fails with ImportCycle when the redirects before
\* the cycle together with the cycle are at most IMPORT_RECURSION_LIMIT, and
\* the error's path then holds the steps of the cycle; when they are more,
\* import fails with ImportRecursionLimit.  It never returns an item.
C11_CycleClosedWithinLimit ==
    \A j \in 1..2 :
        (ImportedHop(j) /\ last.prog.back > 0 /\ j <= last.prog.n)
            => IF TailLen(last.prog, j) + CycleLen(last.prog) <= IMPORT_RECURSION_LIMIT
               THEN /\ IsErrKind(last.res, "ImportCycle")
                    /\ PathCoversCycle(last.prog, last.res.data.path)
                    /\ Len(last.res.data.path)
                         = TailLen(last.prog, j) + CycleLen(last.prog) + 1
               ELSE /\ IsErrKind(last.res, "ImportRecursionLimit")
                    /\ last.res.data.count = IMPORT_RECURSION_LIMIT + 1

\* C11 witness: a cycle of exactly IMPORT_RECURSION_LIMIT imports was
\* reported as ImportCycle.
C11_Witness ==
    /\ ImportedHop(1)
    /\ last.prog.back = 1
    /\ last.prog.n = IMPORT_RECURSION_LIMIT
    /\ IsErrKind(last.res, "ImportCycle")
    /\ Len(last.res.data.path) = IMPORT_RECURSION_LIMIT + 1

\* C12: for a straight chain of n import redirects, import returns the
\* finally rewritten item when n <= IMPORT_RECURSION_LIMIT and fails with
\* ImportRecursionLimit when n > IMPORT_RECURSION_LIMIT; without any
\* redirect it returns None.
C12_RecursionLimit ==
    \A j \in 1..2 :
        (ImportedHop(j) /\ last.prog.back = 0)
            => LET n == Hops(last.prog, j)
               IN  /\ n = 0 => last.res = Ok(None)
                   /\ (1 <= n /\ n <= IMPORT_RECURSION_LIMIT)
                         => last.res = Ok(Some(Hop(last.prog.n + 1)))
                   /\ n > IMPORT_RECURSION_LIMIT
                         => /\ IsErrKind(last.res, "ImportRecursionLimit")
                            /\ last.res.data.count = IMPORT_RECURSION_LIMIT + 1
                            /\ Len(last.res.data.path) = IMPORT_RECURSION_LIMIT + 1

\* C12 witness: in the chain of IMPORT_RECURSION_LIMIT + 1 imports the call
\* for the second name, which follows IMPORT_RECURSION_LIMIT redirects,
\* returned the end of the chain, every import of the chain being cached
\* by then.
C12_Witness ==
    /\ ImportedHop(2)
    /\ last.prog.back = 0
    /\ last.prog.n = IMPORT_RECURSION_LIMIT + 1
    /\ last.res = Ok(Some(Hop(IMPORT_RECURSION_LIMIT + 2)))
    /\ Hop(1) \in DOMAIN meta

\* C14: every redirect import follows has passed check_access_to from the
\* module the resolution is in.  When a call of import from a module
\* followed the import declared inside m, check_access_to admits that module
\* to the import.
C14_RedirectsAreChecked ==
    (/\ last.op = "import"
     /\ last.prog.kind = "private"
     /\ last.res = Ok(Some(PrivateTarget)))
        => IsOk(check_access_to(Q, last.module, PrivateItem, 2, 2,
                                last.prog.visibility, <<>>))

\* How far the running call is: the 'outer iteration it is in or about to
\* enter, and the prefix it tries next.
ImportProgress(c) == <<IF c.st.k = 0 THEN c.st.count + 1 ELSE c.st.count, c.st.k>>

\* C23: every call of import terminates: each pass of its loops takes it
\* further (to a later 'outer iteration, or to a longer prefix in the same
\* one), at most IMPORT_RECURSION_LIMIT + 1 'outer iterations are entered and
\* no prefix is longer than the item, also when every redirect makes the
\* item longer.
C23_ImportTerminates ==
    [][IsSome(call') =>
         /\ Unwrap(call').st.count <= IMPORT_RECURSION_LIMIT + 1
         /\ Unwrap(call').st.k <= Len(Unwrap(call').st.item) + 1
         /\ IsSome(call) =>
              LET a == ImportProgress(Unwrap(call))
                  b == ImportProgress(Unwrap(call'))
              IN  a[1] < b[1] \/ (a[1] = b[1] /\ a[2] < b[2])]_vars

C23_Witness ==
    /\ IsSome(call)
    /\ last.prog.kind = "grow"
    /\ Unwrap(call).st.count = IMPORT_RECURSION_LIMIT + 1
    /\ Len(Unwrap(call).st.item) = IMPORT_RECURSION_LIMIT + 2
    /\ Unwrap(call).st.k = 0

\* Two calls ended alike: with the same value, or with an error of the
\* same kind.
SameOutcome(r1, r2) ==
    IF IsOk(r1) THEN r2 = r1 ELSE IsErr(r2) /\ r2.kind = r1.kind

\* C24: when import is called again with the same module and item and no
\* other operation in between, the second call ends as the first did.
C24_ImportTwice ==
    [][(/\ last.op = "import"
        /\ IsSome(call)
        /\ IsNone(call')
        /\ Unwrap(call).item = last.item
        /\ Unwrap(call).module = last.module)
           => SameOutcome(last.res, last'.res)]_vars

\* The import the meta cache m holds for an item, if any.
CachedImport(m, item) ==
    IF item \in DOMAIN m THEN m[item].import ELSE None

\* The entries the indexer ix holds for an item.
EntriesOf(ix, item) == IF IndexedHas(ix, item) THEN IndexedGet(ix, item) ELSE <<>>

\* A pass of the call c that left it as d followed a redirect at the
\* prefix c was trying: no shorter prefix is an import, the item is the
\* import's target followed by the rest of the old item, the module is the
\* import's, the walk restarts, and the longer prefixes were not looked up.
Redirected(c, d) ==
    LET prefix(j) == SubSeq(c.st.item, 1, j)
        update == Unwrap(CachedImport(meta', prefix(c.st.k)))
    IN  /\ c.st.k \in 1..Len(c.st.item)
        /\ \A j \in 1..(c.st.k - 1) : IsNone(CachedImport(meta', prefix(j)))
        /\ IsSome(CachedImport(meta', prefix(c.st.k)))
        /\ d.st.item = update.target \o SubSeq(c.st.item, c.st.k + 1, Len(c.st.item))
        /\ d.st.module = update.module
        /\ d.st.k = 0
        /\ \A j \in (c.st.k + 1)..Len(c.st.item) :
             /\ EntriesOf(indexed', prefix(j)) = EntriesOf(indexed, prefix(j))
             /\ (prefix(j) \in DOMAIN meta') = (prefix(j) \in DOMAIN meta)

\* C26: in each 'outer iteration of import the prefixes of the item are
\* tried from the shortest to the longest, and the first that is an import
\* redirects: the item becomes the import's target followed by the rest of
\* the item, the module becomes the import's module and the walk restarts;
\* longer prefixes of the old item are not looked up in that iteration.
C26_FirstPrefixRedirects ==
    [][(IsSome(call) /\ IsSome(call')) =>
         LET c == Unwrap(call)
             d == Unwrap(call')
         IN  IF Len(d.st.path) > Len(c.st.path) THEN Redirected(c, d)
             ELSE /\ d.st.item = c.st.item
                  /\ d.st.module = c.st.module
                  /\ d.st.k = c.st.k + 1]_vars

C26_Witness ==
    /\ last.op = "import"
    /\ last.prog.kind = "shadow"
    /\ last.res = Ok(Some(<<HopName(2), "x">>))
    /\ IndexedHas(indexed, <<HopName(1), "x">>)

----------------------------------------------------------------------------
(* check_access_to on its own: the modules m1, m1::m2, m1::m2::m3 and o    *)
(* are declared with every visibility, then access to an item of one       *)
(* module is checked from another.                                         *)

M1 == <<"m1">>

M2 == <<"m1", "m2">>

M3 == <<"m1", "m2", "m3">>

Other == <<"o">>

\* The name of the item access is checked to.
AccessName == "C"

\* The location of its declaration.
AccessLocation == 9

\* insert_mod for m1, for m1::m2 unless the indexer never saw it (hole),
\* for m1::m2::m3 below the module declared last, and for o.
DeclareModules(v1, v2, v3, vo, hole) ==
    LET q1 == insert_mod(EmptyQ, 1, M1, RootMod, v1).q
        q2 == IF hole THEN q1 ELSE insert_mod(q1, 2, M2, 2, v2).q
        q3 == insert_mod(q2, 3, M3, Len(q2.modules), v3).q
    IN  insert_mod(q3, 4, Other, RootMod, vo).q

AccessOp(from, module, visibility, res) ==
    [op |-> "check_access_to", item |-> Append(modules[module].item, AccessName),
     used |-> "Used", res |-> res, from |-> from, module |-> module,
     visibility |-> visibility]

InitAccess ==
    \E v1, v2, v3 \in Visibility, hole \in BOOLEAN :
        LET q == DeclareModules(v1, IF hole THEN "Inherited" ELSE v2, v3, "Inherited", hole)
        IN  /\ meta = q.meta
            /\ queue = q.queue
            /\ indexed = q.indexed
            /\ names = q.names
            /\ modules = q.modules
            /\ unit = q.unit
            /\ registered = q.registered
            /\ pushed = q.pushed
            /\ decls = Len(q.modules) - 1
            /\ debug_assertions = FALSE
            /\ popped = <<>>
            /\ call = None /\ query_paths = <<>> /\ gen = 0
            /\ compiler = EmptyCompiler
            /\ last = Op("insert_mod", Other, "Used", Ok(TRUE))

\* Query::check_access_to, called for an item declared in a module with a
\* visibility, from a module.
CheckAccess ==
    /\ \E from \in 1..Len(modules), module \in 1..Len(modules),
          visibility \in Visibility :
         last' = AccessOp(from, module, visibility,
                          check_access_to(Q, from,
                                          Append(modules[module].item, AccessName),
                                          module, AccessLocation, visibility, <<>>))
    /\ UNCHANGED <<meta, queue, indexed, names, modules, unit, registered,
                   decls, debug_assertions, pushed, popped, call, compiler,
                   query_paths, gen>>

NextAccess == CheckAccess

SpecAccess == InitAccess /\ [][NextAccess]_vars

----------------------------------------------------------------------------
(* Properties of check_access_to (specification SpecAccess). *)

\* The module of the last call's descent at depth k below the common
\* ancestor of the accessing module and the target module.
DescentItem(k) ==
    LET a == ancestry(modules[last.from].item, modules[last.module].item)
    IN  a.common \o SubSeq(a.tree, 1, k)

DescentRecords(k) == {i \in 1..Len(modules) : modules[i].item = DescentItem(k)}

\* The depths of the descent whose module has no record or is not visible
\* from the common ancestor.
DescentFailures ==
    LET a == ancestry(modules[last.from].item, modules[last.module].item)
    IN  {k \in 1..Len(a.tree) :
            \/ DescentRecords(k) = {}
            \/ \E i \in DescentRecords(k) :
                 ~is_visible(modules[i].visibility, a.common, DescentItem(k))}

AccessWalk ==
    last.op = "check_access_to" =>
        LET a == ancestry(modules[last.from].item, modules[last.module].item)
            from == modules[last.from].item
        IN  IF DescentFailures # {}
            THEN LET k == CHOOSE j \in DescentFailures :
                              \A i \in DescentFailures : j <= i
                 IN  IF DescentRecords(k) = {}
                     THEN last.res = Err("MissingMod", [item |-> DescentItem(k)])
                     ELSE \E i \in DescentRecords(k) :
                            last.res = Err("NotVisibleMod",
                                           [item |-> DescentItem(k), from |-> from,
                                            location |-> modules[i].location])
            ELSE IF ~is_visible_inside(last.visibility, a.common,
                                       modules[last.module].item)
            THEN last.res = Err("NotVisible",
                                [item |-> last.item, from |-> from,
                                 location |-> AccessLocation, chain |-> <<>>])
            ELSE last.res = Ok(TRUE)

\* The last call checked access to a public item of the module `below`,
\* declared pub(super), from the module `from`, all modules above `below`
\* being public.
AccessBelowSuper(below, from) ==
    /\ last.op = "check_access_to"
    /\ modules[last.module].item = below
    /\ modules[last.module].visibility = "Super"
    /\ modules[last.from].item = from
    /\ last.visibility = "Public"
    /\ \A k \in 1..(Len(below) - 1) :
         \E i \in 1..Len(modules) : /\ modules[i].item = SubSeq(below, 1, k)
                                    /\ modules[i].visibility = "Public"

Permissiveness(visibility) ==
    CASE visibility \in {"Inherited", "SelfValue"} -> 0
      [] visibility = "Super" -> 1
      [] visibility = "Crate" -> 2
      [] visibility = "Public" -> 3

\* The last call, repeated on the module table q with the item declared
\* with a visibility.
AccessAgain(q, visibility) ==
    check_access_to(q, last.from, last.item, last.module, AccessLocation,
                    visibility, <<>>)

----------------------------------------------------------------------------
(* Properties of failed builds (specification Spec). *)

\* The kinds of error of a failed build the engine reports with the item
\* that failed.
FailureKinds == {"AmbiguousItem", "NotVisible", "UnitConflict", "MetaConflict"}

\* The item a call was resolving when it returned the error.
FailedItem(l) ==
    IF l.res.kind = "MetaConflict" THEN ConflictItem(l) ELSE l.res.data.item

\* C17: when query_meta, import or queue_unused_entries returns an error
\* while resolving an item, the meta cache holds no meta for the item and
\* the indexer holds no entry for it.
C17_FailedBuildLeavesNothing ==
    (/\ last.op \in {"query_meta", "import", "queue_unused_entries"}
     /\ IsErr(last.res)
     /\ last.res.kind \in FailureKinds)
        => /\ FailedItem(last) \notin DOMAIN meta
           /\ ~IndexedHas(indexed, FailedItem(last))

\* C19: when query_meta, import or queue_unused_entries returns an error,
\* the entries that were in the build queue are still there, in their
\* order and ahead of any entry the call added.
C19_ErrorKeepsQueue ==
    [][(/\ last'.op \in {"query_meta", "import", "queue_unused_entries"}
        /\ IsErr(last'.res))
           => /\ Len(queue') >= Len(queue)
              /\ SubSeq(queue', 1, Len(queue)) = queue]_vars

C19_Witness ==
    /\ last.op \in {"query_meta", "import", "queue_unused_entries"}
    /\ IsErrKind(last.res, "AmbiguousItem")
    /\ queue # <<>>

----------------------------------------------------------------------------
(* The driver's loop: the build queue is emptied with next_build_entry,   *)
(* then queue_unused_entries is called, until it returns false.           *)

\* The longest program the driver is run on, in declarations.
MaxDecls == 3

DriverItems == {<<"a">>, <<"b">>}

\* A function, a struct, a constant that refers to b, a constant whose
\* evaluation fails, and `use b`.
DriverShapes ==
    {IndexedOther("Function"), IndexedOther("Struct"),
     IndexedConst(Ir(<< <<"b">> >>, TRUE)), IndexedConst(Ir(<<>>, FALSE)),
     IndexedImport(ImportEntry(DefaultLocation, <<"b">>, RootMod), FALSE)}

\* The engine before the indexer ran.
InitDriver ==
    /\ meta = <<>>
    /\ queue = <<>>
    /\ indexed = <<>>
    /\ names = {RootItem}
    /\ modules = <<RootModMeta>>
    /\ unit = {}
    /\ registered = 0
    /\ decls = 0
    /\ debug_assertions = FALSE
    /\ pushed = <<>>
    /\ popped = <<>>
    /\ call = None /\ query_paths = <<>> /\ gen = 0
    /\ compiler = EmptyCompiler
    /\ last = Op("new", RootItem, "Used", Ok(TRUE))

\* The context installs a function a before the sources are indexed.
DriverContext ==
    /\ last.op = "new"
    /\ LET r == insert_context_meta(Q, <<"a">>, "Function")
       IN  Commit(r.q, Op("insert_context_meta", <<"a">>, "Used", r.res))
    /\ UNCHANGED <<decls, popped>>

\* The indexer meets a declaration; its location is its position.
DriverIndex ==
    /\ last.op \in {"new", "insert_context_meta", "index"}
    /\ decls < MaxDecls
    /\ \E item \in DriverItems, shape \in DriverShapes :
         Commit(index(Q, IndexedEntry(
                             ItemMeta(decls + 1, item, RootMod, "Inherited"),
                             IF shape.kind = "Import"
                             THEN IndexedImport(ImportEntry(decls + 1, <<"b">>, RootMod),
                                                FALSE)
                             ELSE shape)),
                Op("index", item, "Used", Ok(TRUE)))
    /\ decls' = decls + 1
    /\ UNCHANGED popped

\* queue_unused_entries returned false: the driver leaves its loop.
DriverDone ==
    IF last.op = "queue_unused_entries" /\ IsOk(last.res) THEN ~last.res.val ELSE FALSE

\* `while let Some(entry) = next_build_entry()`.
DriverBuild ==
    /\ ~DriverDone
    /\ queue # <<>>
    /\ LET r == next_build_entry(Q)
       IN  /\ Commit(r.q, Op("next_build_entry", RootItem, "Used", Ok(r.res)))
           /\ popped' = popped \o r.res
    /\ UNCHANGED decls

\* The queue is empty: queue_unused_entries is called; an error is recorded
\* and the loop goes on.
DriverQueueUnused ==
    /\ ~DriverDone
    /\ queue = <<>>
    /\ LET r == queue_unused_entries(Q)
       IN  Commit(r.q, Op("queue_unused_entries", RootItem, "Unused", r.res))
    /\ UNCHANGED <<decls, popped>>

NextDriver ==
    \/ DriverContext
    \/ DriverIndex
    \/ DriverBuild
    \/ DriverQueueUnused

SpecDriver == InitDriver /\ [][NextDriver]_vars

----------------------------------------------------------------------------
(* Properties of the driver's loop (specification SpecDriver). *)

----------------------------------------------------------------------------
(* The emitter of field accesses on its own: a function body with a local *)
(* t (or none), and the field accesses compiled in it.                    *)

\* Instructions emitted before assemble is not called again.
MaxInsts == 2

\* t, u, a::t and a call.
FieldExprs ==
    {[kind |-> "Path", segments |-> <<"t">>],
     [kind |-> "Path", segments |-> <<"u">>],
     [kind |-> "Path", segments |-> <<"a", "t">>],
     [kind |-> "Call", segments |-> <<>>]}

\* Integer literals around the range of usize, a float and a name.
ExprFields ==
    {[kind |-> "LitNumber", number |-> [kind |-> "Integer", value |-> n]] :
        n \in -1..(USIZE_MAX + 1)}
    \cup {[kind |-> "LitNumber", number |-> [kind |-> "Float", value |-> 0]],
          [kind |-> "Ident", name |-> "x"]}

\* The locals in scope: none, or t at an offset.
FieldScopes ==
    {<<>>} \cup {[n \in {"t"} |-> [offset |-> o]] : o \in 0..1}

\* The static strings of the unit when the body is compiled: none, the
\* field's name, or another name.
FieldStrings == {<<>>, <<"x">>, <<"y">>}

AssembleOp(expr, expr_field, needs, res) ==
    [op |-> "assemble", item |-> RootItem, used |-> "Used", res |-> res,
     expr |-> expr, expr_field |-> expr_field, needs |-> needs,
     before |-> Len(compiler.asm), warned |-> compiler.warnings]

InitField ==
    /\ meta = <<>>
    /\ queue = <<>>
    /\ indexed = <<>>
    /\ names = {RootItem}
    /\ modules = <<RootModMeta>>
    /\ unit = {}
    /\ registered = 0
    /\ decls = 0
    /\ debug_assertions = FALSE
    /\ pushed = <<>>
    /\ popped = <<>>
    /\ call = None /\ query_paths = <<>> /\ gen = 0
    /\ \E scopes \in FieldScopes, strings \in FieldStrings :
         compiler = [EmptyCompiler EXCEPT !.scopes = scopes, !.strings = strings]
    /\ last = Op("new", RootItem, "Used", Ok(TRUE))

\* ExprFieldAccess::assemble for a field access of the body.
Assemble ==
    /\ Len(compiler.asm) < MaxInsts
    /\ \E expr \in FieldExprs, expr_field \in ExprFields, needs \in Needs :
         LET r == assemble(compiler, expr, expr_field, needs)
         IN  /\ compiler' = r.c
             /\ last' = AssembleOp(expr, expr_field, needs, r.res)
    /\ UNCHANGED <<meta, queue, indexed, names, modules, unit, registered,
                   decls, debug_assertions, pushed, popped, call, query_paths, gen>>

NextField == Assemble

SpecField == InitField /\ [][NextField]_vars

----------------------------------------------------------------------------
(* Properties of the emitter (specification SpecField). *)

\* The instructions the last call of assemble emitted.
Emitted == SubSeq(compiler.asm, last.before + 1, Len(compiler.asm))

\* The last call compiled `ident.n` with ident a local in scope and n an
\* integer literal that is not negative and fits usize.
ImmediateCase ==
    /\ last.op = "assemble"
    /\ last.expr.kind = "Path"
    /\ Len(last.expr.segments) = 1
    /\ last.expr.segments[1] \in DOMAIN compiler.scopes
    /\ last.expr_field.kind = "LitNumber"
    /\ last.expr_field.number.kind = "Integer"
    /\ last.expr_field.number.value \in 0..USIZE_MAX

\* TupleIndexGet{target: Offset(offset of the local), index} for the last
\* call.
ImmediateInst ==
    TupleIndexGet(Offset(compiler.scopes[last.expr.segments[1]].offset),
                  last.expr_field.number.value)

\* The last call took the general path: it begins with the code of expr.
GeneralPath == Emitted # <<>> /\ Emitted[1] = ExprCode(last.expr)

\* C20 as stated: for a bare identifier naming a local in scope and a
\* non-negative integer literal that fits usize, `expr.field` compiles to
\* the single instruction TupleIndexGet{target: Offset(offset of the
\* local), index} and expr is not compiled separately; otherwise the fast
\* path emits nothing and the general path is taken.
C20_ImmediateSingleInst ==
    last.op = "assemble" =>
        IF ImmediateCase THEN Emitted = <<ImmediateInst>> ELSE GeneralPath

\* C20, amended: in the fast case the instructions are TupleIndexGet{target:
\* Offset(offset of the local), index}, followed by Pop when the value is
\* not needed, and expr is not compiled separately; otherwise the fast path
\* emits nothing and the general path is taken.
C20_ImmediateInstThenPop ==
    last.op = "assemble" =>
        IF ImmediateCase
        THEN Emitted = IF last.needs = "Value" THEN <<ImmediateInst>>
                       ELSE <<ImmediateInst, Pop>>
        ELSE GeneralPath

C20_Witness ==
    /\ ImmediateCase
    /\ last.needs = "None"
    /\ last.expr_field.number.value = USIZE_MAX
    /\ Len(Emitted) = 2

\* The last call of assemble emitted a get instruction as its last but k.
GetEmitted(k) ==
    /\ Len(Emitted) > k
    /\ Emitted[Len(Emitted) - k].inst \in {"TupleIndexGet", "ObjectIndexGet"}

\* C21: on both paths, a field access whose result is not used records one
\* not-used warning, appends Pop directly after the get instruction and
\* returns an empty value; one whose result is used emits no Pop, records
\* no warning and returns an unnamed value.
C21_UnusedPopsAndIsEmpty ==
    (last.op = "assemble" /\ IsOk(last.res)) =>
        IF last.needs = "Value"
        THEN /\ GetEmitted(0)
             /\ compiler.warnings = last.warned
             /\ last.res.val = ValueUnnamed
        ELSE /\ GetEmitted(1)
             /\ Emitted[Len(Emitted)] = Pop
             /\ compiler.warnings = last.warned + 1
             /\ last.res.val = ValueEmpty

\* The field of the last call is a numeric literal that is no tuple index:
\* not an integer, negative, or too large for usize.
NoTupleIndex ==
    /\ last.op = "assemble"
    /\ last.expr_field.kind = "LitNumber"
    /\ \/ last.expr_field.number.kind # "Integer"
       \/ last.expr_field.number.value \notin 0..USIZE_MAX

\* C22: a field access whose field is a numeric literal that does not fit
\* a tuple index fails with BadFieldAccess and emits no TupleIndexGet,
\* ObjectIndexGet or Pop, whether expr is a local identifier or not.
C22_BadFieldAccess ==
    NoTupleIndex =>
        /\ IsErrKind(last.res, "BadFieldAccess")
        /\ \A i \in 1..Len(Emitted) :
             Emitted[i].inst \notin {"TupleIndexGet", "ObjectIndexGet", "Pop"}

C22_Witness ==
    /\ NoTupleIndex
    /\ last.expr.segments = <<"t">>
    /\ "t" \in DOMAIN compiler.scopes
    /\ last.expr_field.number.kind = "Integer"
    /\ last.expr_field.number.value = USIZE_MAX + 1
    /\ IsErrKind(last.res, "BadFieldAccess")

\* The positions of the get instructions the last call emitted.
GetsEmitted ==
    {i \in 1..Len(Emitted) : Emitted[i].inst \in {"TupleIndexGet", "ObjectIndexGet"}}

\* The positions at which the unit holds a string.
SlotsOf(name) == {i \in 1..Len(compiler.strings) : compiler.strings[i] = name}

\* C31: on the general path expr is compiled as a value first and its
\* address is the target; then exactly one get instruction is emitted:
\* TupleIndexGet{target, index} when the field is a numeric literal that
\* is a tuple index, ObjectIndexGet{target, slot} when the field is an
\* identifier, slot being the one slot of the unit's static strings that
\* holds the field's name.
C31_GeneralPathGet ==
    (last.op = "assemble" /\ ~ImmediateCase /\ ~NoTupleIndex) =>
        /\ Len(Emitted) >= 2
        /\ Emitted[1] = ExprCode(last.expr)
        /\ GetsEmitted = {2}
        /\ Emitted[2].target = Top
        /\ IF last.expr_field.kind = "LitNumber"
           THEN Emitted[2] = TupleIndexGet(Top, last.expr_field.number.value)
           ELSE /\ Emitted[2].inst = "ObjectIndexGet"
                /\ SlotsOf(last.expr_field.name) = {Emitted[2].slot}

\* `t.x` where x was interned before: the slot is the old one.
C31_Witness ==
    /\ last.op = "assemble"
    /\ last.expr.segments = <<"t">>
    /\ "t" \in DOMAIN compiler.scopes
    /\ last.expr_field.kind = "Ident"
    /\ last.before = 0
    /\ compiler.strings = <<"x">>
    /\ Emitted = <<ExprCode(last.expr), ObjectIndexGet(Top, 1)>>

----------------------------------------------------------------------------
(* Properties of queue_unused_entries (specification SpecDriver). *)

\* The entries of the indexer ix in insertion order, as queue_unused_entries
\* collects them.
UnusedAt(ix) == FlattenEntries(ix)

\* The items some constant of the entries es refers to.
ReferredTo(es) ==
    UNION {{es[i].indexed.ir.refs[j] : j \in 1..Len(es[i].indexed.ir.refs)} :
             i \in 1..Len(es)}

\* The call that failed at the entry es[i] queried the entries before it,
\* whose items left the indexer, and none after it: the items that only
\* later entries name, and no constant refers to, keep their entries.
StoppedAt(es, i) ==
    /\ \A j \in 1..(i - 1) : ~IndexedHas(indexed', es[j].item_meta.item)
    /\ \A j \in (i + 1)..Len(es) :
         (/\ \A m \in 1..i : es[m].item_meta.item # es[j].item_meta.item
          /\ es[j].item_meta.item \notin ReferredTo(es))
            => EntriesOf(indexed', es[j].item_meta.item)
                 = EntriesOf(indexed, es[j].item_meta.item)

\* C27: queue_unused_entries returns Ok(false) exactly when the indexer
\* holds no entry, and then changes nothing; otherwise it queries with
\* Used::Unused every item that had an entry when the call started, in the
\* indexer's insertion order, stops at the first failing query, returning
\* that error with the source of the entry queried, and if no query fails
\* returns Ok(true) with none of those items left in the indexer.
C27_QueueUnusedEntries ==
    [][last'.op = "queue_unused_entries" =>
         /\ (IF IsOk(last'.res) THEN ~last'.res.val ELSE FALSE) <=> (indexed = <<>>)
         /\ indexed = <<>> =>
               /\ meta' = meta /\ queue' = queue /\ indexed' = indexed
               /\ names' = names /\ modules' = modules /\ unit' = unit
         /\ \A k \in (Len(queue) + 1)..Len(queue') : queue'[k].used = "Unused"
         /\ IsOk(last'.res) =>
               \A item \in IndexedKeys(indexed) : ~IndexedHas(indexed', item)
         /\ IsErr(last'.res) =>
               \E i \in 1..Len(UnusedAt(indexed)) :
                  /\ UnusedAt(indexed)[i].item_meta.location = last'.res.source_id
                  /\ StoppedAt(UnusedAt(indexed), i)]_vars

\* The query of the first entry fails and the second entry is left.
C27_Witness ==
    /\ last.op = "queue_unused_entries"
    /\ IsErrKind(last.res, "IrError")
    /\ last.res.source_id = 1
    /\ decls = 2
    /\ IndexedHas(indexed, <<"b">>)

----------------------------------------------------------------------------
(* Paths on their own: the modules m and m::n, a few declarations, a path  *)
(* registered by the indexer, and the paths of the program converted.      *)

\* The most declarations of a program of paths, besides the modules.
MaxPathDecls == 2

\* The most segments after the first of a path.
MaxRest == 2

\* The most paths the indexer registers.
MaxPaths == 1

PathMod == <<"m">>
PathInner == <<"m", "n">>

\* fn m::n::f::x, fn m::n::x, fn m::x and, inside m::n, `use m::x as a`,
\* each with the module it is declared in.
PathDecls ==
    << [item |-> <<"m", "n", "f", "x">>, module |-> 3, import |-> None],
       [item |-> <<"m", "n", "x">>, module |-> 3, import |-> None],
       [item |-> <<"m", "x">>, module |-> 2, import |-> None],
       [item |-> <<"m", "n", "a">>, module |-> 3, import |-> Some(<<"m", "x">>)] >>

\* The places of the paths: the root module, the module m::n, and the body
\* of f in m::n, outside and inside an impl of T.
QueryPaths ==
    {QueryPath(RootMod, None, RootItem),
     QueryPath(3, None, PathInner),
     QueryPath(3, None, <<"m", "n", "f">>),
     QueryPath(3, Some(<<"T">>), <<"m", "n", "f">>)}

\* The prelude in effect and the crates of the context.
Prelude == [n \in {"p", "pc"} |-> <<"::std", n>>]
ContextCrates == {"c", "pc"}

\* The identifiers a path starts with, the segments that follow, and the
\* paths converted.
FirstSegments ==
    {PathSegment("Ident", n) : n \in {"x", "a"}}
        \cup {PathSegment(k, "") : k \in {"Super", "SelfType", "SelfValue", "Crate"}}
        \cup {PathSegment("Generics", "T")}

RestSegments ==
    {PathSegment("Ident", "x"), PathSegment("Generics", "T")}
        \cup {PathSegment(k, "") : k \in {"Super", "SelfType", "SelfValue", "Crate"}}

RECURSIVE SeqsUpTo(_, _)
SeqsUpTo(S, n) ==
    IF n = 0 THEN {<<>>}
    ELSE SeqsUpTo(S, n - 1)
           \cup {Append(r, x) : r \in {t \in SeqsUpTo(S, n - 1) : Len(t) = n - 1},
                                x \in S}

\* The paths of the program: every shape for the path registered last, and
\* the shapes of one segment for a path without id, for the paths
\* registered before it and for one never registered.
Paths(g) ==
    {Path(Some(g), global, first, rest) :
        global \in BOOLEAN,
        first \in FirstSegments,
        rest \in SeqsUpTo(RestSegments, MaxRest)}
      \cup
    {Path(id, global, first, <<>>) :
        id \in {None} \cup {Some(i) : i \in (1..(g + 1)) \ {g}},
        global \in BOOLEAN,
        first \in FirstSegments}

NoPath == Path(None, FALSE, PathSegment("Crate", ""), <<>>)

NoQueryPath == QueryPath(RootMod, None, RootItem)

\* The last operation on paths: d is the last declaration made, qp the
\* QueryPath the path's id stood for when the call started.
PathOp(op, item, module, res, path, d, qp) ==
    [op |-> op, item |-> item, used |-> "Used", res |-> res, module |-> module,
     path |-> path, d |-> d, qp |-> qp]

\* The engine after the indexer declared the modules m and m::n.
PathModules ==
    insert_mod(insert_mod(EmptyQ, 1, PathMod, RootMod, "Public").q,
               2, PathInner, 2, "Public").q

InitPath ==
    /\ meta = PathModules.meta
    /\ queue = PathModules.queue
    /\ indexed = PathModules.indexed
    /\ names = PathModules.names
    /\ modules = PathModules.modules
    /\ unit = PathModules.unit
    /\ registered = PathModules.registered
    /\ pushed = PathModules.pushed
    /\ decls = 0
    /\ debug_assertions = FALSE
    /\ popped = <<>>
    /\ call = None /\ query_paths = <<>> /\ gen = 0
    /\ compiler = EmptyCompiler
    /\ last = PathOp("new", RootItem, RootMod, Ok(TRUE), NoPath, 0, None)

\* The indexer meets a function: Query::index.
PathDeclareFn ==
    /\ last.op \in {"new", "index", "insert_import"}
    /\ decls < MaxPathDecls
    /\ \E d \in (last.d + 1)..Len(PathDecls) :
         /\ IsNone(PathDecls[d].import)
         /\ Commit(index(Q, IndexedEntry(
                               ItemMeta(decls + 3, PathDecls[d].item,
                                        PathDecls[d].module, "Public"),
                               IndexedOther("Function"))),
                   PathOp("index", PathDecls[d].item, PathDecls[d].module,
                          Ok(TRUE), NoPath, d, None))
    /\ decls' = decls + 1
    /\ UNCHANGED popped

\* The indexer meets an import: Query::insert_import.
PathDeclareUse ==
    /\ last.op \in {"new", "index", "insert_import"}
    /\ decls < MaxPathDecls
    /\ \E d \in (last.d + 1)..Len(PathDecls) :
         /\ IsSome(PathDecls[d].import)
         /\ LET item == PathDecls[d].item
                r == insert_import(Q, decls + 3, PathDecls[d].module, "Public",
                                   SubSeq(item, 1, Len(item) - 1),
                                   Unwrap(PathDecls[d].import),
                                   Some(item[Len(item)]), FALSE)
            IN  Commit(r.q, PathOp("insert_import", item, PathDecls[d].module,
                                   r.res, NoPath, d, None))
    /\ decls' = decls + 1
    /\ UNCHANGED popped

\* The engine is left alone.
EngineUnchanged ==
    UNCHANGED <<meta, queue, indexed, names, modules, unit, registered, decls,
                debug_assertions, pushed, popped, call, compiler>>

\* A conversion was made.
Converted == last.op \in {"convert_path", "convert_initial_path"}

\* The indexer registers a path: Query::insert_path.
InsertPath ==
    /\ ~Converted
    /\ gen < MaxPaths
    /\ \E qp \in QueryPaths :
         LET r == insert_path(query_paths, gen, qp.module, qp.impl_item, qp.item)
         IN  /\ query_paths' = r.query_paths
             /\ gen' = r.gen
             /\ last' = PathOp("insert_path", qp.item, qp.module, Ok([id |-> r.id]), NoPath,
                               last.d, None)
    /\ EngineUnchanged

\* Query::remove_path_by_id.
RemovePath ==
    /\ last.op = "insert_path"
    /\ \E id \in {None, Some(gen)} :
         /\ query_paths' = remove_path_by_id(query_paths, id)
         /\ last' = PathOp("remove_path_by_id", RootItem, RootMod, Ok([id |-> id]),
                           NoPath, last.d, None)
    /\ UNCHANGED gen
    /\ EngineUnchanged

\* The QueryPath an id stands for, if any.
QueryPathOf(id) ==
    IF IsNone(id) THEN None
    ELSE IF Unwrap(id) \in DOMAIN query_paths THEN Some(query_paths[Unwrap(id)])
    ELSE None

\* A path of the program is converted: Query::convert_path.
ConvertPath ==
    /\ last.op \in {"insert_path", "remove_path_by_id"}
    /\ gen = MaxPaths
    /\ \E path \in Paths(gen) :
         LET r == convert_path(Q, query_paths, Prelude, ContextCrates, path)
         IN  Commit(r.q, PathOp("convert_path", RootItem, RootMod, r.res, path,
                                last.d, QueryPathOf(path.id)))
    /\ UNCHANGED <<decls, popped>>

\* The leading identifiers looked up.
Locals == {"x", "a", "p", "c", "pc"}

\* A leading identifier is resolved in a scope of a module:
\* Query::convert_initial_path.
ConvertInitialPath ==
    /\ last.op \in {"new", "index", "insert_import"}
    /\ \E qp \in QueryPaths, local \in Locals :
         LET base == qp.item
             module == qp.module
         IN  last' = PathOp("convert_initial_path", base, module,
                            convert_initial_path(Q, Prelude, ContextCrates,
                                                 module, base, local),
                            Path(None, FALSE, PathSegment("Ident", local), <<>>),
                            last.d, None)
    /\ UNCHANGED <<query_paths, gen>>
    /\ EngineUnchanged

NextPath ==
    \/ PathDeclareFn
    \/ PathDeclareUse
    \/ InsertPath
    \/ RemovePath
    \/ ConvertPath
    \/ ConvertInitialPath

SpecPath == InitPath /\ [][NextPath]_vars

----------------------------------------------------------------------------
(* Properties of the conversion of paths (specification SpecPath). *)

\* The item the first segment of a path stands for, in the place qp, when
\* the engine is q.
FirstItem(q, path, qp) ==
    LET kind == path.first.kind
    IN  IF path.global THEN with_crate(path.first.ident)
        ELSE CASE kind = "Ident" ->
                    convert_initial_path(q, Prelude, ContextCrates, qp.module,
                                         qp.item, path.first.ident).val
               [] kind = "Super" -> Unwrap(Parent(q.modules[qp.module].item))
               [] kind = "SelfValue" -> q.modules[qp.module].item
               [] kind = "SelfType" -> Unwrap(qp.impl_item)
               [] OTHER -> RootItem

\* The item after the first n of the segments rest, starting from item: an
\* identifier appends a component, `super` removes the last one.
RECURSIVE RestItem(_, _, _)
RestItem(item, rest, n) ==
    IF n = 0 THEN item
    ELSE LET before == RestItem(item, rest, n - 1)
         IN  CASE rest[n].kind = "Ident" -> Append(before, rest[n].ident)
               [] rest[n].kind = "Super" -> SubSeq(before, 1, Len(before) - 1)
               [] OTHER -> before

\* The item the segments of a path stand for.
SegmentsItem(q, path, qp) ==
    RestItem(FirstItem(q, path, qp), path.rest, Len(path.rest))

\* The positions of the generics among the segments after the first.
GenericsAt(path) == {k \in 1..Len(path.rest) : path.rest[k].kind = "Generics"}

\* The result named holds the item import gave for the item computed, or
\* the item computed when import gave none.
NamesItem(named, i, computed) ==
    /\ IsOk(i.res)
    /\ named.item = IF IsSome(i.res.val) THEN Unwrap(i.res.val) ELSE computed

\* C28: convert_path computes the item from the segments: `::ident` is the
\* crate item of that name, a first `super` the parent of the module's
\* item, `self` the module's item, `Self` the impl_item, `crate` the root
\* item, a first identifier what convert_initial_path returns; each
\* further identifier appends a component and each further `super` removes
\* the last; generics are captured at most once into the result.  The item
\* returned is what import makes of the item computed.
C28_ConvertPathItem ==
    [][(last'.op = "convert_path" /\ IsOk(last'.res)) =>
         /\ NamesItem(last'.res.val,
                      import(Q, Unwrap(last'.qp).module,
                             SegmentsItem(Q, last'.path, Unwrap(last'.qp)), "Used"),
                      SegmentsItem(Q, last'.path, Unwrap(last'.qp)))
         /\ Cardinality(GenericsAt(last'.path)) <= 1
         /\ last'.res.val.generics =
               IF GenericsAt(last'.path) = {} THEN None
               ELSE Some(last'.path.rest[CHOOSE k \in GenericsAt(last'.path) : TRUE].ident)]_vars

\* `self::super::<T>` in m::n is m, with the generics T.
C28_Witness ==
    /\ last.op = "convert_path"
    /\ last.path.first.kind = "SelfValue"
    /\ Len(last.path.rest) = 2
    /\ last.path.rest[1].kind = "Super"
    /\ last.path.rest[2].kind = "Generics"
    /\ last.res = Ok(Named(None, PathMod, Some("T")))

\* What a call of import that ended with the locals st, for the item
\* computed, and the item convert_path returned have to do with each other:
\* import returned an item exactly if a redirect fired, the item is then
\* the rewritten one, and otherwise the one computed.
RewrittenIffRedirected(st, computed, item) ==
    LET r == Unwrap(st.res)
    IN  /\ IsOk(r)
        /\ IsSome(r.val) <=> Len(st.path) > 0
        /\ Len(st.path) > 0 =>
              /\ r.val = Some(st.item)
              /\ st.item = st.path[Len(st.path)].item
                             \o SubSeq(st.item, Len(st.path[Len(st.path)].item) + 1,
                                       Len(st.item))
              /\ item = st.item
        /\ Len(st.path) = 0 => item = computed

\* C25: import returns Some(rewritten item) if and only if at least one
\* redirect fired during the call, and None otherwise, also when prefixes
\* were built in place without a redirect; convert_path returns the
\* rewritten item in the first case and the item it computed in the second.
C25_RewrittenOrComputed ==
    [][(last'.op = "convert_path" /\ IsOk(last'.res)) =>
         RewrittenIffRedirected(
             ImportLoop(ImportLocals(Q, Unwrap(last'.qp).module,
                                     SegmentsItem(Q, last'.path, Unwrap(last'.qp)),
                                     "Used")),
             SegmentsItem(Q, last'.path, Unwrap(last'.qp)),
             last'.res.val.item)]_vars

\* In m::n, `a` is m::n::a by the name table and m::x by `use m::x as a`.
C25_Witness ==
    /\ last.op = "convert_path"
    /\ last.path.first = PathSegment("Ident", "a")
    /\ last.res = Ok(Named(Some("a"), <<"m", "x">>, None))
    /\ <<"m", "n", "a">> \in DOMAIN meta

\* The errors of a malformed path.
PathErrors ==
    {"MissingId", "UnsupportedGlobal", "UnsupportedSuper", "UnsupportedSelfType",
     "UnsupportedGenerics", "UnsupportedSuperInSelfType",
     "UnsupportedAfterGeneric", "ExpectedLeadingPathSegment"}

\* The errors the first segment of a path calls for, in the place qp.
FirstOffences(q, path, qp) ==
    {e \in PathErrors :
        \/ e = "UnsupportedGlobal" /\ path.global /\ path.first.kind # "Ident"
        \/ e = "UnsupportedSuper" /\ path.first.kind = "Super"
              /\ IsNone(Parent(q.modules[qp.module].item))
        \/ e = "UnsupportedSelfType" /\ path.first.kind = "SelfType"
              /\ IsNone(qp.impl_item)
        \/ e = "UnsupportedGenerics" /\ path.first.kind = "Generics"}

\* The errors the k-th segment after the first calls for, when the
\* segments before it call for none.
RestOffences(q, path, qp, k) ==
    {e \in PathErrors :
        \/ e = "UnsupportedAfterGeneric"
              /\ \E j \in 1..(k - 1) : path.rest[j].kind = "Generics"
        \/ e = "UnsupportedSuperInSelfType" /\ path.rest[k].kind = "Super"
              /\ path.first.kind = "SelfType"
        \/ e = "UnsupportedSuper" /\ path.rest[k].kind = "Super"
              /\ RestItem(FirstItem(q, path, qp), path.rest, k - 1) = <<>>
        \/ e = "ExpectedLeadingPathSegment"
              /\ path.rest[k].kind \in {"SelfValue", "SelfType", "Crate"}}

\* The segments after the first before which no segment calls for an
\* error, the first included.
RECURSIVE WellFormedUpTo(_, _, _, _)
WellFormedUpTo(q, path, qp, k) ==
    IF k = 0 THEN FirstOffences(q, path, qp) = {}
    ELSE /\ WellFormedUpTo(q, path, qp, k - 1)
         /\ RestOffences(q, path, qp, k) = {}

\* The errors the first malformed segment of a path calls for; none if the
\* path is well formed.
Offences(q, path, qp) ==
    IF FirstOffences(q, path, qp) # {} THEN FirstOffences(q, path, qp)
    ELSE UNION {IF WellFormedUpTo(q, path, qp, k - 1)
                THEN RestOffences(q, path, qp, k) ELSE {} :
                   k \in 1..Len(path.rest)}

\* The error a malformed path has to be rejected with: MissingId without a
\* QueryPath, else one the first malformed segment calls for.
Rejected(q, path, res) ==
    IF IsNone(QueryPathOf(path.id)) THEN IsErrKind(res, "MissingId")
    ELSE IF Offences(q, path, Unwrap(QueryPathOf(path.id))) # {}
    THEN IsErr(res) /\ res.kind \in Offences(q, path, Unwrap(QueryPathOf(path.id)))
    ELSE IsErr(res) => res.kind \notin PathErrors

\* C29: convert_path rejects a malformed path with the error of its first
\* malformed segment and without calling import, so that the engine is
\* left as it was: MissingId for an id without QueryPath; UnsupportedGlobal
\* for `::` before a segment that is no identifier; UnsupportedSuper for
\* `super` with no parent; UnsupportedSelfType for `Self` without
\* impl_item; UnsupportedGenerics for generics first;
\* UnsupportedSuperInSelfType for `super` after `Self`;
\* UnsupportedAfterGeneric for a segment after generics;
\* ExpectedLeadingPathSegment for `self`, `Self` or `crate` after the first
\* segment.
C29_MalformedPaths ==
    [][last'.op = "convert_path" =>
         /\ Rejected(Q, last'.path, last'.res)
         /\ (IF IsErr(last'.res) THEN last'.res.kind \in PathErrors ELSE FALSE)
               => /\ meta' = meta /\ indexed' = indexed /\ queue' = queue
                  /\ names' = names /\ unit' = unit /\ pushed' = pushed]_vars

\* `Self::x::super` inside an impl, with entries the engine could build.
C29_Witness ==
    /\ last.op = "convert_path"
    /\ IsErrKind(last.res, "UnsupportedSuperInSelfType")
    /\ Len(last.path.rest) = 2
    /\ last.path.rest[1].kind = "Ident"
    /\ IsSome(last.qp)
    /\ decls = MaxPathDecls

\* The scopes of base, from the module's item inwards, in which the name
\* table knows local: the lengths of the prefixes of base.
ScopesWith(local, mod_item, base) ==
    {k \in Len(mod_item)..Len(base) : Append(SubSeq(base, 1, k), local) \in names}

\* The longest of a set of lengths.
Innermost(ks) == CHOOSE k \in ks : \A j \in ks : j <= k

\* C30: convert_initial_path resolves a leading identifier to the
\* innermost scope of the path's item, not above the module's item, in
\* which the name table knows it; if there is none, to the prelude's entry;
\* else, if the identifier is a crate of the context, to the crate item of
\* that name; else to the module's item extended by the identifier; and it
\* always returns.
C30_ConvertInitialPath ==
    last.op = "convert_initial_path" =>
        LET local == last.path.first.ident
            base == last.item
            mod_item == modules[last.module].item
            ks == ScopesWith(local, mod_item, base)
        IN  /\ IsOk(last.res)
            /\ last.res.val =
                 IF ks # {} THEN Append(SubSeq(base, 1, Innermost(ks)), local)
                 ELSE IF local \in DOMAIN Prelude THEN Prelude[local]
                 ELSE IF local \in ContextCrates THEN with_crate(local)
                 ELSE Append(mod_item, local)

\* In the body of f in m::n, x is known in m only: m is above the module
\* and is not probed.
C30_Witness ==
    /\ last.op = "convert_initial_path"
    /\ last.item = <<"m", "n", "f">>
    /\ last.path.first.ident = "x"
    /\ <<"m", "x">> \in names
    /\ <<"m", "n", "x">> \notin names
    /\ <<"m", "n", "f", "x">> \notin names
    /\ last.res = Ok(<<"m", "n", "x">>)

----------------------------------------------------------------------------
(* Constants that refer to constants (specification SpecConst): two        *)
(* constants a and b are indexed, each with the items its expression       *)
(* refers to and the number of reductions its own evaluation takes, and    *)
(* are then queried.                                                       *)

ConstA == <<"a">>

ConstB == <<"b">>

\* `const A = 1;`, `const A = A;` and `const A = B;`
ConstRefs == {<<>>, <<ConstA>>, <<ConstB>>}

\* The reductions of one expression: few, and around the budget.
ConstSteps == {1, IR_BUDGET - 1, IR_BUDGET, IR_BUDGET + 1}

\* A call with the indexer as it was before it.
ConstOp(op, item, used, res) ==
    [op |-> op, item |-> item, used |-> used, res |-> res, before |-> indexed]

InitConst ==
    /\ meta = <<>>
    /\ queue = <<>>
    /\ indexed = <<>>
    /\ names = {RootItem}
    /\ modules = <<RootModMeta>>
    /\ unit = {}
    /\ registered = 0
    /\ decls = 0
    /\ debug_assertions \in BOOLEAN
    /\ pushed = <<>>
    /\ popped = <<>>
    /\ call = None /\ query_paths = <<>> /\ gen = 0
    /\ compiler = EmptyCompiler
    /\ last = [op |-> "new", item |-> RootItem, used |-> "Used",
               res |-> Ok(None), before |-> <<>>]

\* The indexer meets the declaration of a constant: of a, then of b.
ConstIndex ==
    /\ last.op = "new" \/ (last.op = "index" /\ last.item = ConstA)
    /\ \E refs \in ConstRefs, steps \in ConstSteps :
         LET item == IF last.op = "new" THEN ConstA ELSE ConstB
         IN  Commit(index(Q, IndexedEntry(
                                ItemMeta(decls + 1, item, RootMod, "Inherited"),
                                IndexedConst(IrOf(refs, steps)))),
                    ConstOp("index", item, "Used", Ok(None)))
    /\ decls' = decls + 1
    /\ UNCHANGED popped

\* A constant is queried.
ConstQuery ==
    /\ last.op \in {"index", "query_meta"}
    /\ last.op = "index" => last.item = ConstB
    /\ Running
    /\ \E item \in {ConstA, ConstB}, used \in Used :
         LET r == query_meta(Q, item, used)
         IN  Commit(r.q, ConstOp("query_meta", item, used, r.res))
    /\ UNCHANGED <<decls, popped>>

NextConst ==
    \/ ConstIndex
    \/ ConstQuery

SpecConst == InitConst /\ [][NextConst]_vars

----------------------------------------------------------------------------
(* Properties of constants (specification SpecConst). *)

\* The reductions of the one constant indexed under the item.
StepsOf(ix, item) == IndexedGet(ix, item)[1].indexed.ir.steps

\* The items the expression of the constant refers to.
RefsOf(ix, item) == IndexedGet(ix, item)[1].indexed.ir.refs

RECURSIVE WithinBudgets(_, _, _)
\* Every constant that a query of the item builds stays within a budget of
\* 1,000,000 of its own: the constant itself, and the constants it refers
\* to that are neither built nor in progress.
WithinBudgets(ix, item, progress) ==
    IF ~IndexedHas(ix, item) \/ item \in progress THEN TRUE
    ELSE /\ StepsOf(ix, item) <= 1000000
         /\ \A k \in 1..Len(RefsOf(ix, item)) :
              WithinBudgets(ix, RefsOf(ix, item)[k], progress \cup {item})

\* C32: every constant that is built is evaluated with a budget of exactly
\* 1,000,000 reductions of its own: the query of an indexed constant
\* succeeds if and only if neither it nor any constant built during its
\* evaluation takes more than 1,000,000 reductions by itself, however many
\* the others take, and fails with the budget error otherwise.
C32_OwnBudget ==
    (last.op = "query_meta" /\ IndexedHas(last.before, last.item)) =>
        /\ IsOk(last.res) <=> WithinBudgets(last.before, last.item, {})
        /\ ~IsOk(last.res) => IsErrKind(last.res, "IrError")

\* a takes 1,000,000 reductions and refers to b, which takes 1,000,000
\* too: the query of a built both.
C32_Witness ==
    /\ last.op = "query_meta"
    /\ last.item = ConstA
    /\ IndexedHas(last.before, ConstA)
    /\ IndexedHas(last.before, ConstB)
    /\ RefsOf(last.before, ConstA) = <<ConstB>>
    /\ StepsOf(last.before, ConstA) = 1000000
    /\ StepsOf(last.before, ConstB) = 1000000
    /\ IsOk(last.res)
    /\ {ConstA, ConstB} \subseteq DOMAIN meta

\* The constant under the item refers to itself, directly or through the
\* other constant.
RefersToItself(ix, item) ==
    \/ item \in {RefsOf(ix, item)[k] : k \in 1..Len(RefsOf(ix, item))}
    \/ \E other \in {ConstA, ConstB} \ {item} :
         /\ IndexedHas(ix, other)
         /\ RefsOf(ix, item) = <<other>>
         /\ RefsOf(ix, other) = <<item>>

\* C37: every indexed entry is built at most once, also when the build of a
\* constant queries the constant itself: insert_meta is called at most
\* once per indexed entry and never refused, at most one build entry is
\* pushed per indexed entry, and the query of an indexed constant whose
\* evaluation stays within the budgets returns, with the meta of its own
\* entry, and leaves no entry of the item indexed.
C37_BuiltOnce ==
    /\ registered <= decls
    /\ registered = Cardinality(DOMAIN meta)
    /\ \A i, j \in 1..Len(pushed) :
         pushed[i].item_meta = pushed[j].item_meta => i = j
    /\ ~IsErrKind(last.res, "MetaConflict")
    /\ (/\ last.op = "query_meta"
        /\ IndexedHas(last.before, last.item)
        /\ WithinBudgets(last.before, last.item, {})) =>
           /\ last.res = Ok(Some(meta[last.item]))
           /\ meta[last.item].item_meta = IndexedGet(last.before, last.item)[1].item_meta
           /\ ~IndexedHas(indexed, last.item)

\* `const A = B; const B = A;`: the query of a built both, each once.
C37_Witness ==
    /\ last.op = "query_meta"
    /\ last.item = ConstA
    /\ last.used = "Unused"
    /\ IndexedHas(last.before, ConstA)
    /\ IndexedHas(last.before, ConstB)
    /\ RefersToItself(last.before, ConstA)
    /\ RefsOf(last.before, ConstA) = <<ConstB>>
    /\ IsOk(last.res)
    /\ IsSome(last.res.val)
    /\ registered = 2
    /\ Len(pushed) = 2

----------------------------------------------------------------------------
(* Declarations and their builds (specification SpecBuild): the indexer    *)
(* meets `mod m`, then a use declaration in the root module or in m, then  *)
(* a declaration of another kind named a; an item is then queried.         *)

BuildMod == <<"m">>

\* `use t`, `use t as a`, `use t::*`, and a use of nothing.
BuildTargets == {<<>>, <<"t">>}

BuildAliases == {None, Some("a")}

\* The arguments of insert_import, the same record for every other call.
UseArgs(module, visibility, at, target, alias, wildcard) ==
    [module |-> module, visibility |-> visibility, at |-> at,
     target |-> target, alias |-> alias, wildcard |-> wildcard]

NoArgs == UseArgs(RootMod, "Inherited", RootItem, <<>>, None, FALSE)

\* A call with its arguments and the engine as it was before it.
BuildOp(op, item, used, res, args) ==
    [op |-> op, item |-> item, used |-> used, res |-> res, args |-> args,
     before |-> [indexed |-> indexed, queue |-> queue, names |-> names,
                 pushed |-> pushed]]

InitBuild ==
    /\ meta = <<>>
    /\ queue = <<>>
    /\ indexed = <<>>
    /\ names = {RootItem}
    /\ modules = <<RootModMeta>>
    /\ unit = {}
    /\ registered = 0
    /\ decls = 0
    /\ debug_assertions = FALSE
    /\ pushed = <<>>
    /\ popped = <<>>
    /\ call = None /\ query_paths = <<>> /\ gen = 0
    /\ compiler = EmptyCompiler
    /\ last = [op |-> "new", item |-> RootItem, used |-> "Used",
               res |-> Ok(TRUE), args |-> NoArgs,
               before |-> [indexed |-> <<>>, queue |-> <<>>,
                           names |-> {RootItem}, pushed |-> <<>>]]

\* The indexer sees `mod m` or `pub mod m`: Query::insert_mod.
BuildDeclareMod ==
    /\ last.op = "new"
    /\ \E visibility \in {"Inherited", "Public"} :
         LET r == insert_mod(Q, decls + 1, BuildMod, RootMod, visibility)
         IN  Commit(r.q, BuildOp("insert_mod", BuildMod, "Used", r.res, NoArgs))
    /\ decls' = decls + 1
    /\ UNCHANGED popped

\* The indexer sees a use declaration in a module: Query::insert_import.
BuildDeclareUse ==
    /\ last.op \in {"new", "insert_mod"}
    /\ \E module \in 1..Len(modules), visibility \in {"Inherited", "Public"},
          target \in BuildTargets, alias \in BuildAliases, wildcard \in BOOLEAN :
         LET at == module_item(Q, module)
             r == insert_import(Q, decls + 1, module, visibility, at, target,
                                alias, wildcard)
         IN  Commit(r.q, BuildOp("insert_import", at, "Used", r.res,
                                 UseArgs(module, visibility, at, target, alias,
                                         wildcard)))
    /\ decls' = decls + 1
    /\ UNCHANGED popped

\* The indexer sees a declaration named a of a kind other than import and
\* module; a variant a::v comes with its enum a.
BuildDeclare ==
    /\ last.op \in {"new", "insert_mod", "insert_import"}
    /\ \E kind \in IndexedKinds \ {"Import", "Module"} :
         LET item_meta == insert_new_item(decls + 1, <<"a">>, RootMod, "Inherited")
             shape == IF kind = "Const"
                      THEN IndexedConst(IrOf(<< <<"t">> >>, 1))
                      ELSE IndexedOther(kind)
             q1 == index(Q, IndexedEntry(item_meta,
                                         IF kind = "Variant"
                                         THEN IndexedOther("Enum") ELSE shape))
             variant == insert_new_item(decls + 1, <<"a", "v">>, RootMod, "Inherited")
         IN  Commit(IF kind = "Variant"
                    THEN index(q1, IndexedEntry(variant, shape))
                    ELSE q1,
                    BuildOp("index", item_meta.item, "Used", Ok(TRUE), NoArgs))
    /\ decls' = decls + 1
    /\ UNCHANGED popped

BuildQueries ==
    {<<"a">>, <<"a", "v">>, <<"t">>, BuildMod, <<"m", "a">>, <<"m", "t">>}

\* An item is queried: Query::query_meta.
BuildQuery ==
    /\ last.op \in {"insert_mod", "insert_import", "index"}
    /\ \E item \in BuildQueries, used \in Used :
         LET r == query_meta(Q, item, used)
         IN  Commit(r.q, BuildOp("query_meta", item, used, r.res, NoArgs))
    /\ UNCHANGED <<decls, popped>>

NextBuild ==
    \/ BuildDeclareMod
    \/ BuildDeclareUse
    \/ BuildDeclare
    \/ BuildQuery

SpecBuild == InitBuild /\ [][NextBuild]_vars

----------------------------------------------------------------------------
(* Properties of declarations and builds (specification SpecBuild). *)

\* The item a use declaration with the arguments a declares.
UseItem(a) ==
    Append(a.at, IF IsSome(a.alias) THEN Unwrap(a.alias)
                 ELSE a.target[Len(a.target)])

\* The module with the id is public, and so is its parent, the root.
PublicMod(id) == id = RootMod \/ modules[id].visibility = "Public"

\* The entry is an import declared with the arguments a.
UseEntry(e, a) ==
    /\ e.indexed.kind = "Import"
    /\ e.indexed.wildcard = a.wildcard
    /\ Unwrap(e.indexed.import).target = a.target
    /\ Unwrap(e.indexed.import).module = a.module
    /\ e.item_meta.item = UseItem(a)
    /\ e.item_meta.module = a.module
    /\ e.item_meta.visibility = a.visibility

\* C33: a successful insert_import indexes exactly one Import entry, under
\* `at` extended by the alias or else by the last component of the target,
\* with the given wildcard flag, target and module; it pushes one ReExport
\* entry if and only if the new item is public; with neither alias nor a
\* last component it fails with LastUseComponent and leaves indexer, build
\* queue and name table as they were.
C33_InsertImport ==
    last.op = "insert_import" =>
        LET a == last.args
            b == last.before
        IN  IF IsNone(a.alias) /\ Len(a.target) = 0
            THEN /\ IsErrKind(last.res, "LastUseComponent")
                 /\ indexed = b.indexed
                 /\ queue = b.queue
                 /\ names = b.names
            ELSE LET old == EntriesOf(b.indexed, UseItem(a))
                     new == EntriesOf(indexed, UseItem(a))
                 IN  /\ IsOk(last.res)
                     /\ Len(new) = Len(old) + 1
                     /\ SubSeq(new, 1, Len(old)) = old
                     /\ UseEntry(new[Len(new)], a)
                     /\ IndexedKeys(indexed) = IndexedKeys(b.indexed) \cup {UseItem(a)}
                     /\ \A k \in IndexedKeys(b.indexed) \ {UseItem(a)} :
                          IndexedGet(indexed, k) = IndexedGet(b.indexed, k)
                     /\ IF a.visibility = "Public" /\ PublicMod(a.module)
                        THEN queue = Append(b.queue,
                                            BuildEntry(new[Len(new)].item_meta,
                                                       "Used", "ReExport"))
                        ELSE queue = b.queue

\* `pub use t::*` in the private module m: an import m::t with the wildcard
\* flag is indexed and nothing is queued.
C33_Witness ==
    /\ last.op = "insert_import"
    /\ last.args = UseArgs(2, "Public", BuildMod, <<"t">>, None, TRUE)
    /\ modules[2].visibility = "Inherited"
    /\ IsOk(last.res)
    /\ Len(IndexedGet(indexed, <<"m", "t">>)) = 1
    /\ IndexedGet(indexed, <<"m", "t">>)[1].indexed.wildcard
    /\ queue = last.before.queue

\* The Build variant queued for an entry of a kind.
QueuedFor(kind) == IF kind = "Import" THEN "Import" ELSE kind

\* What the build of the entry e with the flag used queues for e.
OwnPushes(e, used) ==
    LET kind == e.indexed.kind
    IN  IF kind \in {"Function", "InstanceFunction", "Closure", "AsyncBlock"}
           \/ (kind = "Import" /\ ~e.indexed.wildcard)
        THEN <<BuildEntry(e.item_meta, used, QueuedFor(kind))>>
        ELSE IF kind \in {"Const", "ConstFn"} /\ used = "Unused"
        THEN <<BuildEntry(e.item_meta, "Unused", "Unused")>>
        ELSE <<>>

\* C34: the build of an indexed entry pushes for it exactly: one entry with
\* the caller's used flag for Function, InstanceFunction, Closure,
\* AsyncBlock and a non-wildcard Import; one Unused entry for Const and
\* ConstFn when the caller's flag is Unused and none otherwise; nothing for
\* Enum, Struct, Variant, Module and a wildcard Import.  Only a constant's
\* build pushes anything else, for the entries its evaluation builds.
C34_BuildPushes ==
    (/\ last.op = "query_meta"
     /\ Len(EntriesOf(last.before.indexed, last.item)) = 1
     /\ IsOk(last.res)) =>
        LET e == EntriesOf(last.before.indexed, last.item)[1]
            during == SubSeq(pushed, Len(last.before.pushed) + 1, Len(pushed))
            own == SelectSeq(during, LAMBDA p : p.item_meta = e.item_meta)
        IN  /\ SubSeq(pushed, 1, Len(last.before.pushed)) = last.before.pushed
            /\ own = OwnPushes(e, last.used)
            /\ e.indexed.kind # "Const" => during = own
            /\ queue = last.before.queue \o during

\* `use t::*` queried as unused: the import is built and nothing is queued.
C34_Witness ==
    /\ last.op = "query_meta"
    /\ last.item = <<"t">>
    /\ last.used = "Unused"
    /\ Len(EntriesOf(last.before.indexed, <<"t">>)) = 1
    /\ EntriesOf(last.before.indexed, <<"t">>)[1].indexed.wildcard
    /\ IsOk(last.res)
    /\ <<"t">> \in DOMAIN meta
    /\ pushed = last.before.pushed

----------------------------------------------------------------------------
(* Blocks of the HIR (specification SpecBlock): a block is the sequence of *)
(* its statements, a statement the name of its variant.                    *)

\* hir::Stmt: the variants of the enum.
Stmt == {"Local", "Expr", "Semi", "Item"}

\* Block::produces_nothing:
\* matches!(self.statements.last(), Some(Stmt::Semi(..)) | None)
produces_nothing(statements) ==
    \/ Len(statements) = 0
    \/ statements[Len(statements)] = "Semi"

Blocks == UNION {[1..n -> Stmt] : n \in 0..MaxLen}

BlockOp(op, statements, res) ==
    [op |-> op, statements |-> statements, res |-> res]

\* A block was lowered.
InitBlock ==
    /\ meta = <<>>
    /\ queue = <<>>
    /\ indexed = <<>>
    /\ names = {RootItem}
    /\ modules = <<RootModMeta>>
    /\ unit = {}
    /\ registered = 0
    /\ decls = 0
    /\ debug_assertions = FALSE
    /\ pushed = <<>>
    /\ popped = <<>>
    /\ call = None /\ query_paths = <<>> /\ gen = 0
    /\ compiler = EmptyCompiler
    /\ \E statements \in Blocks : last = BlockOp("block", statements, Ok(FALSE))

\* The emitter asks whether the block produces nothing.
ProducesNothing ==
    /\ last.op = "block"
    /\ last' = BlockOp("produces_nothing", last.statements,
                       Ok(produces_nothing(last.statements)))
    /\ UNCHANGED <<meta, queue, indexed, names, modules, unit, registered,
                   decls, debug_assertions, pushed, popped, call, compiler,
                   query_paths, gen>>

NextBlock == ProducesNothing

SpecBlock == InitBlock /\ [][NextBlock]_vars

----------------------------------------------------------------------------
(* Properties of blocks (specification SpecBlock). *)

\* C35: produces_nothing is true when the block is empty or its last
\* statement is a local declaration, an item or an expression with a
\* semicolon, and false only when the last statement is an expression
\* without a semicolon.
C35_ProducesNothing ==
    last.op = "produces_nothing" =>
        LET n == Len(last.statements)
        IN  last.res.val <=> (n = 0 \/ last.statements[n] # "Expr")

====
